---------------------------- MODULE Spec2Model ----------------------------
(***************************************************************************)
(* The cart workflow and the product catalogue of E_Commerce_Products      *)
(* (src/apps/app.py, src/users_utility/utilities.py,                        *)
(* src/user_models/tables.py) as a state machine over the database tables. *)
(*                                                                         *)
(* Spec        : the cart workflow, requests run one after the other,      *)
(*               each to completion.                                       *)
(* SpecRace    : add_to_cart requests split at the lookup of the Cart row  *)
(*               and the commit, run by concurrent workers.                *)
(* SpecCatalog : create, get, update, delete and the specs filter.         *)
(* SpecSearch  : the text search and its search_count side effect.         *)
(* SpecLatest  : the latest-discounted listing, with a clock.              *)
(* SpecSale    : the clearance sale and the bulk price increase, with a    *)
(*               clock.                                                    *)
(*                                                                         *)
(* Every database call of a request succeeds in these specifications,      *)
(* except the ones the data itself makes fail (a duplicate primary key).   *)
(* Each request has its own SQLAlchemy session (Flask-SQLAlchemy scopes    *)
(* db.session to the request and removes it at teardown), so what a        *)
(* handler leaves uncommitted in the session is discarded.                 *)
(***************************************************************************)
EXTENDS Integers, FiniteSets, Sequences, Bags, TLC

\* ------------------------------------------------------------------ bounds
\* Largest quantity a Cart row is allowed to reach in the model.
MaxQty == 2
\* Largest number of Cart rows in the table in the model.
MaxRows == 2
\* Largest search_count a product is allowed to reach in the model.
MaxSearch == 2
\* Last tick of the clock in the model.
MaxNow == 2
\* Ticks of the clock in a day: a date is the tick of its midnight.
TicksPerDay == 2
\* Largest price a product is allowed to reach in the model.
MaxPrice == 40

\* ---------------------------------------------------------------- universes
\* SQL NULL, and a request parameter that is absent (Python None).
NULL == "NULL"

\* Rows of user_registration: no handler of src/ writes this table.
User_Registration_Form == {"alice", "bob"}
\* Usernames a request may carry: registered, unknown, all digits.
UserParams == User_Registration_Form \cup {"carol", "42"}

\* Primary keys a product may have.
UUIDs == {"p1", "p2"}
\* Product identifiers a request may carry: a UUID, all digits, absent.
ProductParams == UUIDs \cup {"77", NULL}

\* The quantity parameter arrives as text (request.form / request.args).
QuantityParams == {"abc", "0", "1", "2"}

Types == {"phone", "tv"}
Brands == {"acme"}
Prices == {10}
Discounts == {50}

\* Rows of valid_product_details (type, brand): no handler of src/ writes it.
ValidProductDetails == {<<"phone", "acme">>}

\* The model and the specs of the products of the cart specifications, whose
\* handlers read neither: a model name and the empty JSON object.  A specs
\* map is the set of its <<key, value>> pairs.
AnyModel == "TV9"
NoSpecs == {}

\* ------------------------------------------------------------------- state
VARIABLES
    products,   \* productss table: uuid -> row, the domain being the rows present
    cart,       \* cart table: a bag of rows (the table has no unique constraint)
    last,       \* the last completed request and its HTTP response
    workers,    \* SpecRace: the add_to_cart requests in flight
    now,        \* the server's clock (datetime.now / datetime.utcnow), in ticks
    outbox      \* what the last request did outside its response, in order:
                \* its commit and the notifications it handed to the gateway

vars == <<products, cart, last, workers, now, outbox>>

\* A Cart row without its surrogate id, which no handler reads.
CartRow(u, p, q) == [user_name |-> u, product_uuid |-> p, quantity |-> q]

\* Product(...) without the specs of the request.
ProductRow_drops_specs(type, brand, model, price, discounts, specs, created_at) ==
    [type |-> type, brand |-> brand, model |-> model, price |-> price,
     discounts |-> discounts, specs |-> {}, created_at |-> created_at,
     search_count |-> 0]

\* A Product row as Product(...) builds it and the INSERT stores it: the
\* columns of the request, created_at from the column default
\* (datetime.utcnow) and search_count from its default 0.
ProductRow(type, brand, model, price, discounts, specs, created_at) ==
    [type |-> type, brand |-> brand, model |-> model, price |-> price,
     discounts |-> discounts, specs |-> specs, created_at |-> created_at,
     search_count |-> 0]

\* ----------------------------------------------------------------- helpers
\* str.isdigit() on the strings of the model.
isdigit(s) == s \in {"42", "77", "0", "1", "2"}

\* validate_string_param: TRUE iff it raises ValueError.  Every parameter of
\* the model is a string or absent, so only the isdigit test can fail.
validate_string_param(param) == param # NULL /\ isdigit(param)

\* int(quantity): the value, for the texts that parse.
int(s) == CASE s = "0" -> 0 [] s = "1" -> 1 [] s = "2" -> 2
\* TRUE iff int(quantity) raises ValueError.
int_raises(s) == s \notin {"0", "1", "2"}

\* get_user_by_name(username) is not None.
get_user_finds_anyone(username) == TRUE

get_user_by_name(username) == username \in User_Registration_Form

\* fetch_product_by_uuid(product_uuid) is not None: a NULL or malformed
\* identifier matches no row (the SQLAlchemyError is swallowed into None).
fetch_product_by_uuid(prods, product_uuid) == product_uuid \in DOMAIN prods

\* The rows Cart.query.filter_by(user_name=u, product_uuid=p) selects.
RowsOf(c, u, p) ==
    {r \in BagToSet(c) : r.user_name = u /\ r.product_uuid = p}

\* The rows Cart.query.filter_by(user_name=u) selects, as a bag.
UserRows(c, u) ==
    LET S == {r \in BagToSet(c) : r.user_name = u}
    IN  [r \in S |-> c[r]]

\* One copy of row r.
One(r) == SetToBag({r})

\* sum(item.quantity for item in rows) over a bag of rows.
RECURSIVE SumQuantity(_)
SumQuantity(b) ==
    IF BagToSet(b) = {} THEN 0
    ELSE LET r == CHOOSE x \in BagToSet(b) : TRUE
         IN  r.quantity * b[r] + SumQuantity([x \in BagToSet(b) \ {r} |-> b[x]])

\* The HTTP response of a request: the handler, the status, the message and
\* the payload, which also records the request where a property needs it.
Response(op, status, message, data) ==
    [op |-> op, status |-> status, message |-> message, data |-> data]

NoData == <<>>

\* What a request does outside its response, as the outbox lists it:
\* db.session.commit() returning, and the two calls of the notification
\* gateway, which takes the message and never raises into the handler.
commit == "commit"
notify_success == "notify_success"
notify_failure == "notify_failure"

\* ------------------------------------------------------------- add_to_cart
\* The outcome of .first(): {} for None, else {row} for any selected row
\* (the query has no ORDER BY).
First(rows) == IF rows = {} THEN {{}} ELSE {{r} : r \in rows}

\* The row a non-empty .first() outcome holds.
The(found) == CHOOSE r \in found : TRUE

\* add_or_update_cart_item, given what its lookup (.first()) found.
add_or_update_overwrites(c, found, username, product_uuid, quantity) ==
    IF found # {}
    THEN (c (-) One(The(found))) (+) One([The(found) EXCEPT !.quantity = quantity])
    ELSE c (+) One(CartRow(username, product_uuid, quantity))

add_or_update_cart_item(c, found, username, product_uuid, quantity) ==
    IF found # {}
    THEN (c (-) One(The(found))) (+) One([The(found) EXCEPT !.quantity = @ + quantity])
    ELSE c (+) One(CartRow(username, product_uuid, quantity))

\* TRUE iff the quantity check of add_to_cart / remove_quantity_from_cart
\* raises ValueError.
quantity_invalid(quantity) ==
    quantity = NULL \/ int_raises(quantity) \/ int(quantity) <= 0

add_to_cart(username, product_uuid, quantity) ==
    /\ UNCHANGED <<products, workers, now>>
    /\ IF \/ validate_string_param(username)
          \/ validate_string_param(product_uuid)
          \/ quantity_invalid(quantity)
       THEN /\ cart' = cart
            /\ outbox' = <<notify_failure>>
            /\ last' = Response("add_to_cart", 400, "Input Validation Error", NoData)
       ELSE IF ~get_user_by_name(username)
       THEN /\ cart' = cart
            /\ outbox' = <<notify_failure>>
            /\ last' = Response("add_to_cart", 404, "User Not Found", NoData)
       ELSE IF ~fetch_product_by_uuid(products, product_uuid)
       THEN /\ cart' = cart
            /\ outbox' = <<notify_failure>>
            /\ last' = Response("add_to_cart", 404, "Product Not Found", NoData)
       ELSE \E found \in First(RowsOf(cart, username, product_uuid)) :
            \* bounds of the model
            /\ found # {} => The(found).quantity + int(quantity) <= MaxQty
            /\ found = {} => BagCardinality(cart) < MaxRows
            /\ cart' = add_or_update_cart_item(cart, found, username, product_uuid,
                                               int(quantity))
            /\ outbox' = <<commit, notify_success>>
            /\ last' = Response("add_to_cart", 200, "Product added to cart successfully",
                                [username |-> username, product_uuid |-> product_uuid,
                                 quantity |-> int(quantity),
                                 total_items |-> SumQuantity(UserRows(cart', username))])

\* ----------------------------------------------- remove_quantity_from_cart
\* cart_item.quantity < quantity: the request asks for more than the row has.
exceeds_or_equals(cart_item, quantity) == cart_item.quantity <= quantity

exceeds(cart_item, quantity) == cart_item.quantity < quantity

\* cart_item.quantity -= quantity; delete the row at zero; commit.
remove_keeps_row(c, cart_item, quantity) ==
    (c (-) One(cart_item)) (+) One([cart_item EXCEPT !.quantity = @ - quantity])

remove_quantity(c, cart_item, quantity) ==
    IF cart_item.quantity - quantity = 0
    THEN c (-) One(cart_item)
    ELSE (c (-) One(cart_item)) (+) One([cart_item EXCEPT !.quantity = @ - quantity])

remove_quantity_from_cart(username, product_uuid, quantity) ==
    /\ UNCHANGED <<products, workers, now>>
    /\ IF \/ validate_string_param(username)
          \/ validate_string_param(product_uuid)
          \/ quantity_invalid(quantity)
       THEN /\ cart' = cart
            /\ outbox' = <<notify_failure>>
            /\ last' = Response("remove_quantity_from_cart", 400,
                                "Input Validation Error", NoData)
       ELSE IF ~get_user_by_name(username)
       THEN /\ cart' = cart
            /\ outbox' = <<notify_failure>>
            /\ last' = Response("remove_quantity_from_cart", 404, "User Not Found", NoData)
       ELSE IF ~fetch_product_by_uuid(products, product_uuid)
       THEN /\ cart' = cart
            /\ outbox' = <<notify_failure>>
            /\ last' = Response("remove_quantity_from_cart", 404,
                                "Product Not Found", NoData)
       ELSE \E found \in First(RowsOf(cart, username, product_uuid)) :
            IF found = {}
            THEN /\ cart' = cart
                 /\ outbox' = <<notify_failure>>
                 /\ last' = Response("remove_quantity_from_cart", 404,
                                     "Product Not Found in Cart", NoData)
            ELSE IF exceeds(The(found), int(quantity))
            THEN /\ cart' = cart
                 /\ outbox' = <<notify_failure>>
                 /\ last' = Response("remove_quantity_from_cart", 400,
                                     "Quantity to remove exceeds quantity in cart", NoData)
            ELSE /\ cart' = remove_quantity(cart, The(found), int(quantity))
                 /\ outbox' = <<commit, notify_success>>
                 /\ last' = Response("remove_quantity_from_cart", 200,
                                     "Quantity removed from cart",
                                     [username |-> username, product_uuid |-> product_uuid,
                                      quantity |-> int(quantity),
                                      remaining_quantity |->
                                          The(found).quantity - int(quantity)])

\* -------------------------------------------- purchase_single_cart_product
\* item_cost = product.price
item_cost(product, cart_item) == product.price

\* total_cost_after_discount = item_cost * (1 - discount_applied / 100); the
\* prices and discounts of the model keep the quotient whole.
total_cost_after_discount(product) ==
    (product.price * (100 - product.discounts)) \div 100

\* db.session.delete(cart_item); db.session.commit()
delete_cart_item(c, cart_item) == c (-) One(cart_item)

purchase_single_cart_product(username, product_uuid) ==
    /\ UNCHANGED <<products, workers, now>>
    /\ IF validate_string_param(username) \/ validate_string_param(product_uuid)
       THEN /\ cart' = cart
            /\ outbox' = <<notify_failure>>
            /\ last' = Response("purchase_single_cart_product", 400,
                                "Input Validation Error", NoData)
       ELSE IF ~get_user_by_name(username)
       THEN /\ cart' = cart
            /\ outbox' = <<notify_failure>>
            /\ last' = Response("purchase_single_cart_product", 404,
                                "User Not Found", NoData)
       ELSE IF ~fetch_product_by_uuid(products, product_uuid)
       THEN /\ cart' = cart
            /\ outbox' = <<notify_failure>>
            /\ last' = Response("purchase_single_cart_product", 404,
                                "Product Not Found", NoData)
       ELSE \E found \in First(RowsOf(cart, username, product_uuid)) :
            IF found = {}
            THEN /\ cart' = cart
                 /\ outbox' = <<notify_failure>>
                 /\ last' = Response("purchase_single_cart_product", 404,
                                     "Product Not Found in Cart", NoData)
            ELSE /\ cart' = delete_cart_item(cart, The(found))
                 /\ outbox' = <<commit, notify_success>>
                 /\ last' = Response("purchase_single_cart_product", 200,
                                     "Product purchased successfully.",
                                     [username |-> username, product_uuid |-> product_uuid,
                                      item_cost |->
                                          item_cost(products[product_uuid], The(found)),
                                      discount_applied |-> products[product_uuid].discounts,
                                      total_cost_after_discount |->
                                          total_cost_after_discount(products[product_uuid])])

\* ---------------------------------------------- purchase_all_cart_products
\* The rows of a bag whose product exists / does not exist.
WithProduct(prods, rows) ==
    [r \in {x \in BagToSet(rows) : fetch_product_by_uuid(prods, x.product_uuid)} |-> rows[r]]

\* What the request leaves in the cart table.  `deleted` are the rows the loop
\* passed to db.session.delete(); they leave the table only if the handler
\* reached db.session.commit() (line 354).  A return before it leaves them
\* pending in the request's session, which is discarded with the request.
session_end_flushes(c, deleted, committed) == c (-) deleted

session_end(c, deleted, committed) == IF committed THEN c (-) deleted ELSE c

\* sum of item_cost over the purchased lines, as the response lists them.
RECURSIVE SumItemCost(_, _)
SumItemCost(prods, rows) ==
    IF BagToSet(rows) = {} THEN 0
    ELSE LET r == CHOOSE x \in BagToSet(rows) : TRUE
         IN  item_cost(prods[r.product_uuid], r) * rows[r]
             + SumItemCost(prods, [x \in BagToSet(rows) \ {r} |-> rows[x]])

purchase_all_cart_products(username) ==
    /\ UNCHANGED <<products, workers, now>>
    /\ IF validate_string_param(username)
       THEN /\ cart' = cart
            /\ outbox' = <<notify_failure>>
            /\ last' = Response("purchase_all_cart_products", 400,
                                "Input Validation Error", NoData)
       ELSE IF ~get_user_by_name(username)
       THEN /\ cart' = cart
            /\ outbox' = <<notify_failure>>
            /\ last' = Response("purchase_all_cart_products", 404, "User Not Found", NoData)
       ELSE LET cart_items == UserRows(cart, username)
                purchasable == WithProduct(products, cart_items)
            IN  IF cart_items = EmptyBag
                THEN /\ cart' = cart
                     /\ outbox' = <<notify_failure>>
                     /\ last' = Response("purchase_all_cart_products", 404,
                                         "No Products in Cart", NoData)
                ELSE IF purchasable # cart_items
                THEN \* the loop deleted the rows it met before the missing product:
                     \* any of the purchasable rows, the query having no ORDER BY
                     \E deleted \in SubBag(purchasable) :
                        /\ cart' = session_end(cart, deleted, FALSE)
                        /\ outbox' = <<notify_failure>>
                        /\ last' = Response("purchase_all_cart_products", 404,
                                            "Product Not Found", [username |-> username])
                ELSE /\ cart' = session_end(cart, cart_items, TRUE)
                     /\ outbox' = <<commit, notify_success>>
                     /\ last' = Response("purchase_all_cart_products", 200,
                                         "All products purchased successfully.",
                                         [username |-> username,
                                          total_count |-> BagCardinality(cart_items),
                                          item_costs |-> SumItemCost(products, cart_items)])

\* ----------------------------------------- delete_single_product_from_cart
delete_single_product_from_cart(username, product_uuid) ==
    /\ UNCHANGED <<products, workers, now>>
    /\ IF validate_string_param(username) \/ validate_string_param(product_uuid)
       THEN \* the ValueError meets no except ValueError clause: except Exception
            /\ cart' = cart
            /\ outbox' = <<notify_failure>>
            /\ last' = Response("delete_single_product_from_cart", 500,
                                "Could not delete product from cart.", NoData)
       ELSE IF ~get_user_by_name(username)
       THEN /\ cart' = cart
            /\ outbox' = <<notify_failure>>
            /\ last' = Response("delete_single_product_from_cart", 404,
                                "User Not Found", NoData)
       ELSE \E found \in First(RowsOf(cart, username, product_uuid)) :
            IF found = {}
            THEN /\ cart' = cart
                 /\ outbox' = <<notify_failure>>
                 /\ last' = Response("delete_single_product_from_cart", 404,
                                     "Product Not Found in Cart", NoData)
            ELSE IF ~fetch_product_by_uuid(products, product_uuid)
            THEN /\ cart' = cart
                 /\ outbox' = <<notify_failure>>
                 /\ last' = Response("delete_single_product_from_cart", 404,
                                     "Product Not Found", NoData)
            ELSE /\ cart' = delete_cart_item(cart, The(found))
                 /\ outbox' = <<commit, notify_success>>
                 /\ last' = Response("delete_single_product_from_cart", 200,
                                     "Product deleted from cart",
                                     [username |-> username, product_uuid |-> product_uuid])

\* --------------------------------------------------------- clear_user_cart
\* The existence check of clear_user_cart: it calls fetch_product_by_uuid on
\* the username, so it looks the username up in the productss table.
clear_cart_user_exists(prods, username) == fetch_product_by_uuid(prods, username)

clear_user_cart(username) ==
    /\ UNCHANGED <<products, workers, now>>
    /\ IF username = NULL
       THEN /\ cart' = cart
            /\ outbox' = <<notify_failure>>
            /\ last' = Response("clear_user_cart", 400, "Username is required.", NoData)
       ELSE IF ~clear_cart_user_exists(products, username)
       THEN /\ cart' = cart
            /\ outbox' = <<notify_failure>>
            /\ last' = Response("clear_user_cart", 400, "User not found.", NoData)
       ELSE IF UserRows(cart, username) = EmptyBag
       THEN /\ cart' = cart
            /\ outbox' = <<notify_success>>
            /\ last' = Response("clear_user_cart", 200, "Cart is already empty", NoData)
       ELSE /\ cart' = cart (-) UserRows(cart, username)
            /\ outbox' = <<commit, notify_success>>
            /\ last' = Response("clear_user_cart", 200, "Cart cleared successfully",
                                [username |-> username])

\* ---------------------------------------------------------- delete_product
\* db.session.delete(product): Product.carts (the backref of Cart.product,
\* tables.py line 45) has no delete cascade, so the unit of work sets
\* product_uuid of the Cart rows of the product to NULL before the DELETE.
\* With cascade="all, delete" on that relationship the rows would go instead:
cascade_carts(c, uuid) ==
    [r \in {x \in BagToSet(c) : x.product_uuid # uuid} |-> c[r]]

nullify_carts(c, uuid) ==
    LET Target(r) == IF r.product_uuid = uuid THEN [r EXCEPT !.product_uuid = NULL] ELSE r
        S == {Target(r) : r \in BagToSet(c)}
        Count(t) == (IF t \in BagToSet(c) THEN c[t] ELSE 0)
                    + (IF t.product_uuid = NULL
                          /\ [t EXCEPT !.product_uuid = uuid] \in BagToSet(c)
                       THEN c[[t EXCEPT !.product_uuid = uuid]] ELSE 0)
    IN  [t \in S |-> Count(t)]

\* delete_product sending its success notification before its commit.
delete_product_notifies_first(uuid) ==
    /\ UNCHANGED <<workers, now>>
    /\ IF uuid \in DOMAIN products
       THEN /\ products' = [u \in DOMAIN products \ {uuid} |-> products[u]]
            /\ cart' = nullify_carts(cart, uuid)
            /\ outbox' = <<notify_success, commit>>
            /\ last' = Response("delete_product", 200, "Product deleted successfully",
                                [uuid |-> uuid])
       ELSE /\ UNCHANGED <<products, cart>>
            /\ outbox' = <<notify_failure>>
            /\ last' = Response("delete_product", 404, "Product not found", NoData)

\* delete_product answering 200 for a row that is not there.
delete_product_always_ok(uuid) ==
    /\ UNCHANGED <<workers, now>>
    /\ products' = [u \in DOMAIN products \ {uuid} |-> products[u]]
    /\ cart' = nullify_carts(cart, uuid)
    /\ outbox' = <<commit, notify_success>>
    /\ last' = Response("delete_product", 200, "Product deleted successfully",
                        [uuid |-> uuid])

delete_product(uuid) ==
    /\ UNCHANGED <<workers, now>>
    /\ IF uuid \in DOMAIN products
       THEN /\ products' = [u \in DOMAIN products \ {uuid} |-> products[u]]
            /\ cart' = nullify_carts(cart, uuid)
            /\ outbox' = <<commit, notify_success>>
            /\ last' = Response("delete_product", 200, "Product deleted successfully",
                                [uuid |-> uuid])
       ELSE /\ UNCHANGED <<products, cart>>
            /\ outbox' = <<notify_failure>>
            /\ last' = Response("delete_product", 404, "Product not found", NoData)

\* ------------------------------------------- add_to_cart, step by step
\* Concurrent requests, each with its own session and transaction.
Workers == {1, 2}

Idle == [pc |-> "idle"]

\* Up to the lookup of add_or_update_cart_item (line 74): the request is
\* answered at once when a check fails, else it holds what .first() returned.
add_to_cart_lookup(w, username, product_uuid, quantity) ==
    /\ workers[w].pc = "idle"
    /\ UNCHANGED <<products, cart, now>>
    /\ IF \/ validate_string_param(username)
          \/ validate_string_param(product_uuid)
          \/ quantity_invalid(quantity)
       THEN /\ last' = Response("add_to_cart", 400, "Input Validation Error", NoData)
            /\ outbox' = <<notify_failure>>
            /\ UNCHANGED workers
       ELSE IF ~get_user_by_name(username)
       THEN /\ last' = Response("add_to_cart", 404, "User Not Found", NoData)
            /\ outbox' = <<notify_failure>>
            /\ UNCHANGED workers
       ELSE IF ~fetch_product_by_uuid(products, product_uuid)
       THEN /\ last' = Response("add_to_cart", 404, "Product Not Found", NoData)
            /\ outbox' = <<notify_failure>>
            /\ UNCHANGED workers
       ELSE \E found \in First(RowsOf(cart, username, product_uuid)) :
            /\ found # {} => The(found).quantity + int(quantity) <= MaxQty
            /\ workers' = [workers EXCEPT ![w] =
                              [pc |-> "commit", username |-> username,
                               product_uuid |-> product_uuid,
                               quantity |-> int(quantity), found |-> found]]
            /\ UNCHANGED <<last, outbox>>

\* The commit step, were the UPDATE relative to the stored value
\* (SET quantity = quantity + <quantity>).
add_to_cart_commit_in_place(w) ==
    /\ workers[w].pc = "commit"
    /\ UNCHANGED <<products, now>>
    /\ LET me == workers[w]
       IN  IF me.found = {}
           THEN /\ BagCardinality(cart) < MaxRows
                /\ cart' = add_or_update_cart_item(cart, {}, me.username,
                                                   me.product_uuid, me.quantity)
           ELSE \E current \in RowsOf(cart, me.username, me.product_uuid) :
                cart' = (cart (-) One(current))
                        (+) One([current EXCEPT !.quantity = @ + me.quantity])
    /\ outbox' = <<commit, notify_success>>
    /\ last' = Response("add_to_cart", 200, "Product added to cart successfully",
                        [username |-> workers[w].username,
                         product_uuid |-> workers[w].product_uuid,
                         quantity |-> workers[w].quantity,
                         total_items |-> SumQuantity(UserRows(cart', workers[w].username))])
    /\ workers' = [workers EXCEPT ![w] = Idle]

\* Lines 75-80: the flush writes the quantity computed from the row as it was
\* read (UPDATE ... SET quantity = <read value + quantity> on that row), or
\* INSERTs a new row; then the commit.  The row is found again by its primary
\* key, whatever quantity it holds by now.
add_to_cart_commit(w) ==
    /\ workers[w].pc = "commit"
    /\ UNCHANGED <<products, now>>
    /\ LET me == workers[w]
       IN  IF me.found = {}
           THEN /\ BagCardinality(cart) < MaxRows
                /\ cart' = add_or_update_cart_item(cart, {}, me.username,
                                                   me.product_uuid, me.quantity)
           ELSE \E current \in RowsOf(cart, me.username, me.product_uuid) :
                cart' = (cart (-) One(current))
                        (+) One([current EXCEPT
                                    !.quantity = The(me.found).quantity + me.quantity])
    /\ outbox' = <<commit, notify_success>>
    /\ last' = Response("add_to_cart", 200, "Product added to cart successfully",
                        [username |-> workers[w].username,
                         product_uuid |-> workers[w].product_uuid,
                         quantity |-> workers[w].quantity,
                         total_items |-> SumQuantity(UserRows(cart', workers[w].username))])
    /\ workers' = [workers EXCEPT ![w] = Idle]

\* ------------------------------------------------------ create_new_product
\* Product.to_dict() of the row of uuid (delivery_time_days, which no
\* modelled handler writes, left out).
to_dict(prods, uuid) ==
    [uuid |-> uuid, type |-> prods[uuid].type, brand |-> prods[uuid].brand,
     model |-> prods[uuid].model, price |-> prods[uuid].price,
     discounts |-> prods[uuid].discounts, specs |-> prods[uuid].specs,
     created_at |-> prods[uuid].created_at, search_count |-> prods[uuid].search_count]

create_skips_allow_list(type, brand) == TRUE

\* ValidProductDetails.filter_by(type=, brand=).first() is not None.
valid_product(type, brand) == <<type, brand>> \in ValidProductDetails

create_new_product(uuid, type, brand, model, price, discounts, specs) ==
    /\ UNCHANGED <<cart, workers, now>>
    /\ IF ~valid_product(type, brand)
       THEN /\ products' = products
            /\ outbox' = <<notify_failure>>
            /\ last' = Response("create_new_product", 400,
                                "Invalid product, type, or brand", NoData)
       ELSE IF uuid \in DOMAIN products
       THEN \* the INSERT violates the primary key: commit raises
            /\ products' = products
            /\ outbox' = <<notify_failure>>
            /\ last' = Response("create_new_product", 500,
                                "Failed to create product", NoData)
       ELSE /\ products' = [u \in DOMAIN products \cup {uuid} |->
                              IF u = uuid
                              THEN ProductRow(type, brand, model, price, discounts,
                                              specs, now)
                              ELSE products[u]]
            /\ outbox' = <<commit, notify_success>>
            /\ last' = Response("create_new_product", 201, "created",
                                [request |-> [uuid |-> uuid, type |-> type,
                                              brand |-> brand, model |-> model,
                                              price |-> price, discounts |-> discounts,
                                              specs |-> specs],
                                 product |-> to_dict(products', uuid)])

\* ------------------------------------------------------- the catalogue
\* What the requests of the catalogue specifications carry.
Models == {"TV9", "S1"}
CatalogPrices == {10, 20}
CatalogDiscounts == {5, 15}
\* JSON objects of specs, each the set of its <<key, value>> pairs.
ColorRed == {<<"color", "red">>}
ColorRedSizeL == {<<"color", "red">>, <<"size", "L">>}
ProductSpecs == {ColorRed, ColorRedSizeL}

\* A key of a JSON payload: {} when the payload omits it, {v} when it holds v.
Optional(S) == {{}} \cup {{x} : x \in S}

\* data.get(key): None for an omitted key.
get(field) == IF field = {} THEN NULL ELSE The(field)

\* data.get(key, default)
get_or(field, default) == IF field = {} THEN default ELSE The(field)

\* ------------------------------------------------------ get_product_by_uuid
\* format_product_details(product)
format_product_details(prods, uuid) ==
    [uuid |-> uuid, type |-> prods[uuid].type, brand |-> prods[uuid].brand,
     model |-> prods[uuid].model, price |-> prods[uuid].price,
     discounts |-> prods[uuid].discounts, specs |-> prods[uuid].specs]

get_product_by_uuid(product_uuid) ==
    /\ UNCHANGED <<products, cart, workers, now>>
    /\ IF ~fetch_product_by_uuid(products, product_uuid)
       THEN /\ outbox' = <<notify_failure>>
            /\ last' = Response("get_product_by_uuid", 404, "Product not found", NoData)
       ELSE /\ outbox' = <<notify_success>>
            /\ last' = Response("get_product_by_uuid", 200, "",
                             format_product_details(products, product_uuid))

\* ----------------------------------------------------------- update_product
\* The payloads of update_product: any subset of the six fields.
UpdatePayloads ==
    [type : Optional(Types), brand : Optional(Brands), model : Optional(Models),
     price : Optional(CatalogPrices), discounts : Optional(CatalogDiscounts),
     specs : Optional(ProductSpecs)]

\* Lines 1923-1928: product.<field> = data.get('<field>', product.<field>).
apply_update(product, data) ==
    [product EXCEPT !.type = get_or(data.type, @),
                    !.brand = get_or(data.brand, @),
                    !.model = get_or(data.model, @),
                    !.price = get_or(data.price, @),
                    !.discounts = get_or(data.discounts, @),
                    !.specs = get_or(data.specs, @)]

\* update_product looking the product up before the allow-list.
update_looks_up_first(uuid, data) ==
    /\ UNCHANGED <<cart, workers, now>>
    /\ IF uuid \notin DOMAIN products
       THEN /\ products' = products
            /\ outbox' = <<>>
            /\ last' = Response("update_product", 404, "Product not found", NoData)
       ELSE IF ~valid_product(get(data.type), get(data.brand))
       THEN /\ products' = products
            /\ outbox' = <<notify_failure>>
            /\ last' = Response("update_product", 400,
                                "Invalid product, type, or brand", NoData)
       ELSE /\ products' = [products EXCEPT ![uuid] = apply_update(@, data)]
            /\ outbox' = <<commit, notify_success>>
            /\ last' = Response("update_product", 200, "", to_dict(products', uuid))

\* The allow-list lookup comes first, on data.get('type') and
\* data.get('brand'): an omitted one is None and matches no row.
update_product(uuid, data) ==
    /\ UNCHANGED <<cart, workers, now>>
    /\ IF ~valid_product(get(data.type), get(data.brand))
       THEN /\ products' = products
            /\ outbox' = <<notify_failure>>
            /\ last' = Response("update_product", 400,
                                "Invalid product, type, or brand", NoData)
       ELSE IF uuid \in DOMAIN products
       THEN /\ products' = [products EXCEPT ![uuid] = apply_update(@, data)]
            /\ outbox' = <<commit, notify_success>>
            /\ last' = Response("update_product", 200, "", to_dict(products', uuid))
       ELSE /\ products' = products
            /\ outbox' = <<>>
            /\ last' = Response("update_product", 404, "Product not found", NoData)

\* -------------------------------------------------- filter_products_by_specs
\* product_specs.get(key): None for a key the map lacks.
dict_get(map, key) ==
    IF \E kv \in map : kv[1] = key
    THEN (CHOOSE kv \in map : kv[1] = key)[2]
    ELSE NULL

\* all(product_specs.get(key) == value for key, value in specs.items())
specs_match(product_specs, specs) ==
    \A kv \in specs : dict_get(product_specs, kv[1]) = kv[2]

\* The specs maps a filter request may supply (NULL is JSON null).
SuppliedSpecs ==
    {{}, ColorRed, ColorRedSizeL, {<<"color", "blue">>}, {<<"size", "L">>},
     {<<"size", NULL>>}}

\* The request bodies: text that is not JSON, JSON whose "specs" is missing or
\* not an object, JSON whose "specs" is one of the maps above.
RawBodies ==
    {[json |-> FALSE, specs |-> {}]}
    \cup [json : {TRUE}, specs : Optional(SuppliedSpecs)]

filter_products_by_specs(raw_data) ==
    /\ UNCHANGED <<products, cart, workers, now>>
    /\ IF ~raw_data.json
       THEN /\ outbox' = <<notify_failure>>
            /\ last' = Response("filter_products_by_specs", 400, "Invalid JSON format",
                                NoData)
       ELSE IF raw_data.specs = {}
       THEN /\ outbox' = <<>>
            /\ last' = Response("filter_products_by_specs", 400,
                                "No valid specs provided for filtering", NoData)
       ELSE LET specs == The(raw_data.specs)
                filtered_products ==
                    {u \in DOMAIN products : specs_match(products[u].specs, specs)}
            IN  IF filtered_products = {}
                THEN /\ outbox' = <<notify_success>>
                     /\ last' = Response("filter_products_by_specs", 200,
                                         "No products match the specified criteria.",
                                         [specs |-> specs, products |-> {}])
                ELSE /\ outbox' = <<notify_success>>
                     /\ last' = Response("filter_products_by_specs", 200, "",
                                         [specs |-> specs, products |-> filtered_products])

\* ---------------------------------------------------------- search_products
\* The query strings of the search requests.
SearchQueries == {"tv", "zz", "", "_"}

\* The characters of the strings the search compares.
Chars(s) ==
    CASE s = "phone" -> <<"p", "h", "o", "n", "e">>
      [] s = "tv"    -> <<"t", "v">>
      [] s = "acme"  -> <<"a", "c", "m", "e">>
      [] s = "TV9"   -> <<"T", "V", "9">>
      [] s = "S1"    -> <<"S", "1">>
      [] s = "zz"    -> <<"z", "z">>
      [] s = "_"     -> <<"_">>
      [] s = ""      -> <<>>

\* The lower-case form of a character.
lower(c) == CASE c = "T" -> "t" [] c = "V" -> "v" [] c = "S" -> "s" [] OTHER -> c

\* string ILIKE pattern, on character sequences: % matches any run of
\* characters, _ any one character, any other character itself in either case.
RECURSIVE ilike_chars(_, _)
ilike_chars(str, pattern) ==
    IF pattern = <<>> THEN str = <<>>
    ELSE IF Head(pattern) = "%"
    THEN \/ ilike_chars(str, Tail(pattern))
         \/ str # <<>> /\ ilike_chars(Tail(str), pattern)
    ELSE IF Head(pattern) = "_"
    THEN str # <<>> /\ ilike_chars(Tail(str), Tail(pattern))
    ELSE /\ str # <<>>
         /\ lower(Head(str)) = lower(Head(pattern))
         /\ ilike_chars(Tail(str), Tail(pattern))

\* Product.<column>.ilike(f'%{query}%')
ilike(column, query) == ilike_chars(Chars(column), <<"%">> \o Chars(query) \o <<"%">>)

\* The rows the search selects: type, brand or model ILIKE %query%.
search_results(prods, query) ==
    {u \in DOMAIN prods : \/ ilike(prods[u].type, query)
                          \/ ilike(prods[u].brand, query)
                          \/ ilike(prods[u].model, query)}

search_products(query) ==
    /\ UNCHANGED <<cart, workers, now>>
    /\ LET found == search_results(products, query)
       IN  IF found = {}
           THEN /\ products' = products
                /\ outbox' = <<notify_success>>
                /\ last' = Response("search_products", 200, "",
                                    [query |-> query, total_count |-> 0, products |-> {}])
           ELSE \* bound of the model
                /\ \A u \in found : products[u].search_count < MaxSearch
                /\ products' = [u \in DOMAIN products |->
                                  IF u \in found
                                  THEN [products[u] EXCEPT !.search_count = @ + 1]
                                  ELSE products[u]]
                /\ outbox' = <<commit, notify_success>>
                /\ last' = Response("search_products", 200, "",
                                    [query |-> query, total_count |-> Cardinality(found),
                                     products |-> found])

\* ----------------------------------------------------------------- the clock
\* Time passes between requests.
tick ==
    /\ now < MaxNow
    /\ now' = now + 1
    /\ UNCHANGED <<products, cart, last, workers, outbox>>

\* ------------------------------------------- get_latest_discounted_products
\* apps.constants.DISCOUNT_THRESHOLD: the configured threshold, 10 in the
\* scenario of the specification.
DISCOUNT_THRESHOLD == 10

\* The products and the discounts of the latest-discounted requests.
LatestUUIDs == UUIDs \cup {"p3"}
LatestDiscounts == {5, 10, 15, 20}

\* Product.discounts >= DISCOUNT_THRESHOLD
discounted_or_equal(product) == product.discounts >= DISCOUNT_THRESHOLD

\* .filter(Product.discounts > DISCOUNT_THRESHOLD)
discounted(product) == product.discounts > DISCOUNT_THRESHOLD

\* The orders in which .order_by(desc(Product.created_at)).all() may list the
\* rows of S: created_at descending, rows of equal created_at in any order.
order_by_created_at_desc(prods, S) ==
    {seq \in [1..Cardinality(S) -> S] :
        /\ \A i, j \in 1..Cardinality(S) : i # j => seq[i] # seq[j]
        /\ \A i, j \in 1..Cardinality(S) :
              i < j => prods[seq[i]].created_at >= prods[seq[j]].created_at}

get_latest_discounted_products ==
    /\ UNCHANGED <<products, cart, workers, now>>
    /\ \E latest_discounted_products \in
             order_by_created_at_desc(products,
                                      {u \in DOMAIN products : discounted(products[u])}) :
          /\ outbox' = <<notify_success>>
          /\ last' = Response("get_latest_discounted_products", 200, "",
                              [total_count |-> Len(latest_discounted_products),
                               products |-> latest_discounted_products])

\* ---------------------------------------------------------- clearance_sale
\* datetime.strptime(text, '%Y-%m-%d'), as the number of days from the date
\* on which the clock of the model starts (2024-01-13), for the texts that
\* parse.
strptime(text) ==
    CASE text = "2023-12-31" -> -13
      [] text = "2024-01-01" -> -12
      [] text = "2024-01-13" -> 0
      [] text = "2024-01-14" -> 1
      [] text = "2024-01-15" -> 2
\* TRUE iff strptime raises ValueError.
strptime_raises(text) ==
    text \notin {"2023-12-31", "2024-01-01", "2024-01-13", "2024-01-14", "2024-01-15"}

\* The datetime strptime returns for a day: its midnight, in ticks.
midnight(day) == day * TicksPerDay

\* float(text), for the texts that parse, and whether it raises ValueError.
float(text) ==
    CASE text = "-10" -> -10
      [] text = "0"   -> 0
      [] text = "50"  -> 50
      [] text = "100" -> 100
      [] text = "150" -> 150
float_raises(text) == text \notin {"-10", "0", "50", "100", "150"}

\* timedelta(days=12): the length of the sale.
SALE_DAYS == 12

\* start_date <= datetime.now() without the end of the sale.
sale_active_without_end(start_date, current) == midnight(start_date) <= current

\* start_date <= datetime.now() <= end_date, end_date = start_date + 12 days.
sale_active(start_date, current) ==
    /\ midnight(start_date) <= current
    /\ current <= midnight(start_date) + SALE_DAYS * TicksPerDay

\* query(Product).filter(Product.created_at <= cutoff_date)
old_or_at_cutoff(prods, cutoff_date) ==
    {u \in DOMAIN prods : prods[u].created_at <= midnight(cutoff_date)}

\* query(Product).filter(Product.created_at < cutoff_date)
old_products(prods, cutoff_date) ==
    {u \in DOMAIN prods : prods[u].created_at < midnight(cutoff_date)}

\* The model follows the prices while they are whole numbers.
whole(price, percentage) == (price * percentage) % 100 = 0

\* product.price -= product.price * (discount_percentage / 100)
\* applying the percentage as an absolute amount.
discount_as_amount(price, discount_percentage) == price - discount_percentage

discounted_price(price, discount_percentage) ==
    price - (price * discount_percentage) \div 100

\* The loop body of clearance_sale (lines 776-780) on one row, were its second
\* assignment to the discounts column.
apply_discount_to_column(product, discount_percentage) ==
    [product EXCEPT !.price = discounted_price(@, discount_percentage),
                    !.discounts = discount_percentage]

\* product.price -= discount_amount; product.discount = discount_percentage.
\* `discount` is no column of Product (the column is `discounts`): the
\* assignment sets a plain attribute of the object and the flush writes price.
apply_discount(product, discount_percentage) ==
    [product EXCEPT !.price = discounted_price(@, discount_percentage)]

\* What the parameters of the batch requests carry.
StartDateParams ==
    {"2023-12-31", "2024-01-01", "2024-01-13", "2024-01-14", "13/01/2024", NULL}
CutoffDateParams == {"2024-01-13", "2024-01-14", "2024-01-15", "13/01/2024"}
DiscountParams == {"-10", "0", "50", "100", "150", "abc"}

clearance_sale(start_date_str, cutoff_date_str, discount_percentage_str) ==
    /\ UNCHANGED <<cart, workers, now>>
    /\ IF \/ start_date_str \in {NULL, ""}
          \/ cutoff_date_str \in {NULL, ""}
          \/ discount_percentage_str \in {NULL, ""}
       THEN /\ products' = products
            /\ outbox' = <<notify_failure>>
            /\ last' = Response("clearance_sale", 400,
                                "The 'start_date', 'cutoff_date', and 'discount_percentage' parameters are required.",
                                NoData)
       ELSE IF strptime_raises(start_date_str) \/ strptime_raises(cutoff_date_str)
       THEN /\ products' = products
            /\ outbox' = <<notify_failure>>
            /\ last' = Response("clearance_sale", 400, "Invalid date format", NoData)
       ELSE IF ~sale_active(strptime(start_date_str), now)
       THEN /\ products' = products
            /\ outbox' = <<>>
            /\ last' = Response("clearance_sale", 400,
                                "Clearance sale is not active at this time.", NoData)
       ELSE IF \/ float_raises(discount_percentage_str)
               \/ float(discount_percentage_str) < 0
               \/ float(discount_percentage_str) > 100
       THEN /\ products' = products
            /\ outbox' = <<notify_failure>>
            /\ last' = Response("clearance_sale", 400,
                                "Invalid discount percentage", NoData)
       ELSE LET discount_percentage == float(discount_percentage_str)
                old == old_products(products, strptime(cutoff_date_str))
            IN  IF old = {}
                THEN /\ products' = products
                     /\ outbox' = <<notify_success>>
                     /\ last' = Response("clearance_sale", 200,
                                         "No products found before the specified cutoff date.",
                                         NoData)
                ELSE \* bound of the model
                     /\ \A u \in old : whole(products[u].price, discount_percentage)
                     /\ products' = [u \in DOMAIN products |->
                                       IF u \in old
                                       THEN apply_discount(products[u], discount_percentage)
                                       ELSE products[u]]
                     /\ outbox' = <<commit, notify_success>>
                     /\ last' = Response("clearance_sale", 200,
                                         "Discounts applied to old products successfully.",
                                         [updated_count |-> Cardinality(old)])

\* ------------------------------- increase_bulk_product_price_by_date_range
\* query(Product).filter(Product.created_at >= start_date,
\*                       Product.created_at <= end_date)
products_to_update(prods, start_date, end_date) ==
    {u \in DOMAIN prods : /\ prods[u].created_at >= midnight(start_date)
                          /\ prods[u].created_at <= midnight(end_date)}

\* product.price += product.price * (increase_percentage / 100)
increased_price(price, increase_percentage) ==
    price + (price * increase_percentage) \div 100

BulkStartDateParams == {"2024-01-13", "2024-01-14", NULL}
BulkEndDateParams == {"2024-01-13", "2024-01-14", "13/01/2024"}
IncreaseParams == {"-10", "0", "100", "abc"}

increase_bulk_product_price_by_date_range(start_date_str, end_date_str, increase_percentage_str) ==
    /\ UNCHANGED <<cart, workers, now>>
    /\ IF \/ start_date_str \in {NULL, ""}
          \/ end_date_str \in {NULL, ""}
          \/ increase_percentage_str \in {NULL, ""}
       THEN /\ products' = products
            /\ outbox' = <<>>
            /\ last' = Response("increase_bulk_product_price_by_date_range", 400,
                                "start_date, end_date, and increase_percentage parameters are required.",
                                NoData)
       ELSE IF strptime_raises(start_date_str) \/ strptime_raises(end_date_str)
       THEN /\ products' = products
            /\ outbox' = <<>>
            /\ last' = Response("increase_bulk_product_price_by_date_range", 400,
                                "Invalid date format. Expected YYYY-MM-DD.", NoData)
       ELSE IF \/ float_raises(increase_percentage_str)
               \/ float(increase_percentage_str) < 0
       THEN /\ products' = products
            /\ outbox' = <<>>
            /\ last' = Response("increase_bulk_product_price_by_date_range", 400,
                                "Invalid increase percentage. Must be a positive number.",
                                NoData)
       ELSE LET increase_percentage == float(increase_percentage_str)
                selected == products_to_update(products, strptime(start_date_str),
                                               strptime(end_date_str))
            IN  IF selected = {}
                THEN /\ products' = products
                     /\ outbox' = <<>>
                     /\ last' = Response("increase_bulk_product_price_by_date_range", 200,
                                         "No products found within the specified date range.",
                                         NoData)
                ELSE \* bounds of the model
                     /\ \A u \in selected :
                           /\ whole(products[u].price, increase_percentage)
                           /\ increased_price(products[u].price, increase_percentage)
                                 <= MaxPrice
                           /\ increased_price(products[u].price, increase_percentage)
                                 >= -MaxPrice
                     /\ products' = [u \in DOMAIN products |->
                                       IF u \in selected
                                       THEN [products[u] EXCEPT
                                               !.price = increased_price(@, increase_percentage)]
                                       ELSE products[u]]
                     /\ outbox' = <<commit, notify_success>>
                     /\ last' = Response("increase_bulk_product_price_by_date_range", 200,
                                         "Prices increased for products successfully.",
                                         [updated_count |-> Cardinality(selected)])

\* --------------------------------------------------------- clear_old_stock
\* for product in old_products: db.session.delete(product), each delete
\* detaching the Cart rows of its product.
RECURSIVE delete_all(_, _)
delete_all(c, uuids) ==
    IF uuids = {} THEN c
    ELSE LET u == CHOOSE x \in uuids : TRUE
         IN  delete_all(nullify_carts(c, u), uuids \ {u})

\* The cutoff_date parameters of the requests.
StockCutoffParams == {"2024-01-13", "2024-01-14", "2024-01-15", "13/01/2024", NULL}

clear_old_stock(cutoff_date_str) ==
    /\ UNCHANGED <<workers, now>>
    /\ IF cutoff_date_str \in {NULL, ""}
       THEN /\ UNCHANGED <<products, cart>>
            /\ outbox' = <<notify_failure>>
            /\ last' = Response("clear_old_stock", 400,
                                "The 'cutoff_date' parameter is required.", NoData)
       ELSE IF strptime_raises(cutoff_date_str)
       THEN /\ UNCHANGED <<products, cart>>
            /\ outbox' = <<notify_failure>>
            /\ last' = Response("clear_old_stock", 400, "Invalid date format",
                                [cutoff_date |-> cutoff_date_str])
       ELSE LET old == old_products(products, strptime(cutoff_date_str))
            IN  IF old = {}
                THEN /\ UNCHANGED <<products, cart>>
                     /\ outbox' = <<notify_failure>>
                     /\ last' = Response("clear_old_stock", 200,
                                         "No products found before the specified cutoff date.",
                                         [cutoff_date |-> cutoff_date_str])
                ELSE /\ products' = [u \in DOMAIN products \ old |-> products[u]]
                     /\ cart' = delete_all(cart, old)
                     /\ outbox' = <<commit, notify_success>>
                     /\ last' = Response("clear_old_stock", 200,
                                         "Old products cleared successfully.",
                                         [cutoff_date |-> cutoff_date_str,
                                          deleted_count |-> Cardinality(old)])


\* ------------------------------------------- search_products, step by step
\* Concurrent search requests, each with its own session.  Up to the query
\* (lines 1040-1056): the request holds the rows it read, with the
\* search_count each had, or answers at once when nothing matches.
search_products_read(w, query) ==
    /\ workers[w].pc = "idle"
    /\ UNCHANGED <<products, cart, now>>
    /\ LET found == search_results(products, query)
       IN  IF found = {}
           THEN /\ outbox' = <<notify_success>>
                /\ last' = Response("search_products", 200, "",
                                    [query |-> query, total_count |-> 0, products |-> {}])
                /\ UNCHANGED workers
           ELSE \* bound of the model
                /\ \A u \in found : products[u].search_count < MaxSearch
                /\ workers' = [workers EXCEPT ![w] =
                                  [pc |-> "search", query |-> query,
                                   search_results |->
                                       [u \in found |-> products[u].search_count]]]
                /\ UNCHANGED <<last, outbox>>

\* Lines 1071-1076: product.search_count += 1 on each object read, computed
\* from the value read; the commit writes it (UPDATE ... SET search_count =
\* <read value + 1>) to the rows that are still there.
search_products_commit(w) ==
    /\ workers[w].pc = "search"
    /\ UNCHANGED <<cart, now>>
    /\ LET me == workers[w]
       IN  /\ products' = [u \in DOMAIN products |->
                             IF u \in DOMAIN me.search_results
                             THEN [products[u] EXCEPT
                                     !.search_count = me.search_results[u] + 1]
                             ELSE products[u]]
           /\ outbox' = <<commit, notify_success>>
           /\ last' = Response("search_products", 200, "",
                               [query |-> me.query,
                                total_count |-> Cardinality(DOMAIN me.search_results),
                                products |-> DOMAIN me.search_results])
    /\ workers' = [workers EXCEPT ![w] = Idle]


\* ------------------------------------------------------- database failures
\* A request during which one access to the database raises SQLAlchemyError.
\* `at` is the access that raises:
\*   "query"          a SELECT of the handler, before anything is changed;
\*   "fetch_product"  the SELECT inside fetch_product_by_uuid, which catches
\*                    the error and returns None (utilities.py 258-260);
\*   "commit"         db.session.commit();
\*   "refresh"        the first read after the commit: the commit expired the
\*                    objects of the session, so prepare_product_details(product)
\*                    reloads the product.
\* What the session had not committed is discarded with the request.
FaultPoints == {"query", "fetch_product", "commit", "refresh"}

\* The body and status of `return jsonify(error_message)`, error_message being
\* the (dict, 400) tuple handle_database_error returns: the tuple is rendered
\* as a JSON array and the status is the default one.
jsonify_tuple(op, operation) == Response(op, 200, operation \o " Database Error", NoData)

\* `return handle_database_error(...)`: Flask reads the tuple as body and status.
return_tuple(op, operation) == Response(op, 400, operation \o " Database Error", NoData)

\* add_to_cart, lines 108-111: except Exception.
add_to_cart_database_error(username, product_uuid, quantity, at) ==
    /\ UNCHANGED <<products, workers, now>>
    /\ ~validate_string_param(username)
    /\ ~validate_string_param(product_uuid)
    /\ ~quantity_invalid(quantity)
    /\ CASE at = "query" ->
              /\ cart' = cart
              /\ outbox' = <<notify_failure, notify_failure>>
              /\ last' = jsonify_tuple("add_to_cart", "Add to Cart")
         [] at = "fetch_product" ->
              /\ get_user_by_name(username)
              /\ cart' = cart
              /\ outbox' = <<notify_failure>>
              /\ last' = Response("add_to_cart", 404, "Product Not Found", NoData)
         [] at = "commit" ->
              /\ get_user_by_name(username)
              /\ fetch_product_by_uuid(products, product_uuid)
              /\ cart' = cart
              /\ outbox' = <<notify_failure, notify_failure>>
              /\ last' = jsonify_tuple("add_to_cart", "Add to Cart")
         [] at = "refresh" ->
              /\ get_user_by_name(username)
              /\ fetch_product_by_uuid(products, product_uuid)
              /\ \E found \in First(RowsOf(cart, username, product_uuid)) :
                    \* bounds of the model
                    /\ found # {} => The(found).quantity + int(quantity) <= MaxQty
                    /\ found = {} => BagCardinality(cart) < MaxRows
                    /\ cart' = add_or_update_cart_item(cart, found, username,
                                                       product_uuid, int(quantity))
              /\ outbox' = <<commit, notify_failure, notify_failure>>
              /\ last' = jsonify_tuple("add_to_cart", "Add to Cart")

\* remove_quantity_from_cart, lines 195-198: except Exception.
remove_quantity_from_cart_database_error(username, product_uuid, quantity, at) ==
    /\ UNCHANGED <<products, workers, now>>
    /\ ~validate_string_param(username)
    /\ ~validate_string_param(product_uuid)
    /\ ~quantity_invalid(quantity)
    /\ CASE at = "query" ->
              /\ cart' = cart
              /\ outbox' = <<notify_failure, notify_failure>>
              /\ last' = jsonify_tuple("remove_quantity_from_cart",
                                       "Remove Quantity from Cart")
         [] at = "fetch_product" ->
              /\ get_user_by_name(username)
              /\ cart' = cart
              /\ outbox' = <<notify_failure>>
              /\ last' = Response("remove_quantity_from_cart", 404,
                                  "Product Not Found", NoData)
         [] at \in {"commit", "refresh"} ->
              /\ get_user_by_name(username)
              /\ fetch_product_by_uuid(products, product_uuid)
              /\ \E found \in First(RowsOf(cart, username, product_uuid)) :
                    /\ found # {}
                    /\ ~exceeds(The(found), int(quantity))
                    /\ cart' = IF at = "commit" THEN cart
                               ELSE remove_quantity(cart, The(found), int(quantity))
              /\ outbox' = IF at = "commit"
                           THEN <<notify_failure, notify_failure>>
                           ELSE <<commit, notify_failure, notify_failure>>
              /\ last' = jsonify_tuple("remove_quantity_from_cart",
                                       "Remove Quantity from Cart")

\* purchase_single_cart_product, lines 277-280: except Exception.
purchase_single_cart_product_database_error(username, product_uuid, at) ==
    /\ UNCHANGED <<products, workers, now>>
    /\ ~validate_string_param(username)
    /\ ~validate_string_param(product_uuid)
    /\ CASE at = "query" ->
              /\ cart' = cart
              /\ outbox' = <<notify_failure, notify_failure>>
              /\ last' = jsonify_tuple("purchase_single_cart_product",
                                       "Purchase Single Cart Product")
         [] at = "fetch_product" ->
              /\ get_user_by_name(username)
              /\ cart' = cart
              /\ outbox' = <<notify_failure>>
              /\ last' = Response("purchase_single_cart_product", 404,
                                  "Product Not Found", NoData)
         [] at \in {"commit", "refresh"} ->
              /\ get_user_by_name(username)
              /\ fetch_product_by_uuid(products, product_uuid)
              /\ \E found \in First(RowsOf(cart, username, product_uuid)) :
                    /\ found # {}
                    /\ cart' = IF at = "commit" THEN cart
                               ELSE delete_cart_item(cart, The(found))
              /\ outbox' = IF at = "commit"
                           THEN <<notify_failure, notify_failure>>
                           ELSE <<commit, notify_failure, notify_failure>>
              /\ last' = jsonify_tuple("purchase_single_cart_product",
                                       "Purchase Single Cart Product")

\* purchase_all_cart_products, lines 370-373: except Exception, answered 500.
\* Nothing reads the database after the commit.
purchase_all_cart_products_database_error(username, at) ==
    /\ UNCHANGED <<products, workers, now>>
    /\ ~validate_string_param(username)
    /\ CASE at = "query" ->
              /\ cart' = cart
              /\ outbox' = <<notify_failure, notify_failure>>
              /\ last' = Response("purchase_all_cart_products", 500,
                                  "Purchase All Cart Products Database Error", NoData)
         [] at = "fetch_product" ->
              \* the loop takes the product for a missing one
              /\ get_user_by_name(username)
              /\ UserRows(cart, username) # EmptyBag
              /\ \E deleted \in SubBag(WithProduct(products, UserRows(cart, username))) :
                    cart' = session_end(cart, deleted, FALSE)
              /\ outbox' = <<notify_failure>>
              /\ last' = Response("purchase_all_cart_products", 404,
                                  "Product Not Found", [username |-> username])
         [] at = "commit" ->
              /\ get_user_by_name(username)
              /\ UserRows(cart, username) # EmptyBag
              /\ WithProduct(products, UserRows(cart, username)) = UserRows(cart, username)
              /\ cart' = session_end(cart, UserRows(cart, username), FALSE)
              /\ outbox' = <<notify_failure, notify_failure>>
              /\ last' = Response("purchase_all_cart_products", 500,
                                  "Purchase All Cart Products Database Error", NoData)
         [] at = "refresh" -> FALSE

\* delete_single_product_from_cart, lines 447-449: except SQLAlchemyError,
\* db.session.rollback() and the (dict, 400) tuple returned as it is.
delete_single_product_from_cart_database_error(username, product_uuid, at) ==
    /\ UNCHANGED <<products, workers, now>>
    /\ ~validate_string_param(username)
    /\ ~validate_string_param(product_uuid)
    /\ CASE at = "query" ->
              /\ cart' = cart
              /\ outbox' = <<notify_failure>>
              /\ last' = return_tuple("delete_single_product_from_cart",
                                      "Delete Product from Cart")
         [] at = "fetch_product" ->
              /\ get_user_by_name(username)
              /\ RowsOf(cart, username, product_uuid) # {}
              /\ cart' = cart
              /\ outbox' = <<notify_failure>>
              /\ last' = Response("delete_single_product_from_cart", 404,
                                  "Product Not Found", NoData)
         [] at \in {"commit", "refresh"} ->
              /\ get_user_by_name(username)
              /\ fetch_product_by_uuid(products, product_uuid)
              /\ \E found \in First(RowsOf(cart, username, product_uuid)) :
                    /\ found # {}
                    /\ cart' = IF at = "commit" THEN cart
                               ELSE delete_cart_item(cart, The(found))
              /\ outbox' = IF at = "commit" THEN <<notify_failure>>
                           ELSE <<commit, notify_failure>>
              /\ last' = return_tuple("delete_single_product_from_cart",
                                      "Delete Product from Cart")

\* clear_user_cart, lines 517-518: except SQLAlchemyError, the (dict, 400)
\* tuple returned as it is.  Nothing reads the database after the commit.
clear_user_cart_database_error(username, at) ==
    /\ UNCHANGED <<products, workers, now>>
    /\ username # NULL
    /\ CASE at = "fetch_product" ->
              \* the existence check takes the user for a missing one
              /\ cart' = cart
              /\ outbox' = <<notify_failure>>
              /\ last' = Response("clear_user_cart", 400, "User not found.", NoData)
         [] at = "query" ->
              /\ clear_cart_user_exists(products, username)
              /\ cart' = cart
              /\ outbox' = <<notify_failure>>
              /\ last' = return_tuple("clear_user_cart", "Clear Cart")
         [] at = "commit" ->
              /\ clear_cart_user_exists(products, username)
              /\ UserRows(cart, username) # EmptyBag
              /\ cart' = session_end(cart, UserRows(cart, username), FALSE)
              /\ outbox' = <<notify_failure>>
              /\ last' = return_tuple("clear_user_cart", "Clear Cart")
         [] at = "refresh" -> FALSE


\* -------------------------------------------------- the notification gateway
\* The gateway takes a message and returns to the handler whatever becomes of
\* it; a notification it cannot deliver is lost after the request is over.
undelivered(notification) == notification \o " undelivered"

gateway_fails ==
    /\ UNCHANGED <<products, cart, last, workers, now>>
    /\ \E i \in DOMAIN outbox :
          /\ outbox[i] \in {notify_success, notify_failure}
          /\ outbox' = [outbox EXCEPT ![i] = undelivered(@)]


\* ------------------------------------------------------------------- specs
NoRequest == Response("none", 0, "", NoData)

Init ==
    /\ products = <<>>
    /\ cart = EmptyBag
    /\ last = NoRequest
    /\ workers = [w \in Workers |-> Idle]
    /\ now = 0
    /\ outbox = <<>>

Next ==
    \/ \E u \in UserParams, p \in ProductParams, q \in QuantityParams :
          add_to_cart(u, p, q)
    \/ \E u \in UserParams, p \in ProductParams, q \in QuantityParams :
          remove_quantity_from_cart(u, p, q)
    \/ \E u \in UserParams, p \in ProductParams : purchase_single_cart_product(u, p)
    \/ \E u \in UserParams : purchase_all_cart_products(u)
    \/ \E u \in UserParams, p \in ProductParams : delete_single_product_from_cart(u, p)
    \/ \E u \in UserParams \cup UUIDs \cup {NULL} : clear_user_cart(u)
    \/ \E uuid \in UUIDs, t \in Types, b \in Brands, pr \in Prices, d \in Discounts :
          create_new_product(uuid, t, b, AnyModel, pr, d, NoSpecs)
    \/ \E uuid \in UUIDs : delete_product(uuid)

Spec == Init /\ [][Next]_vars

\* Concurrent add_to_cart requests over a catalogue built by create_new_product.
NextRace ==
    \/ \E w \in Workers, u \in UserParams, p \in ProductParams, q \in QuantityParams :
          add_to_cart_lookup(w, u, p, q)
    \/ \E w \in Workers : add_to_cart_commit(w)
    \/ \E uuid \in UUIDs, t \in Types, b \in Brands, pr \in Prices, d \in Discounts :
          create_new_product(uuid, t, b, AnyModel, pr, d, NoSpecs)

SpecRace == Init /\ [][NextRace]_vars

\* The catalogue: create, read, update, delete and the specs filter, one
\* request after the other.
NextCatalog ==
    \/ \E uuid \in UUIDs, t \in Types, b \in Brands, m \in Models,
          pr \in CatalogPrices, d \in CatalogDiscounts, s \in ProductSpecs :
          create_new_product(uuid, t, b, m, pr, d, s)
    \/ \E uuid \in UUIDs : get_product_by_uuid(uuid)
    \/ \E uuid \in UUIDs, data \in UpdatePayloads : update_product(uuid, data)
    \/ \E uuid \in UUIDs : delete_product(uuid)
    \/ \E raw_data \in RawBodies : filter_products_by_specs(raw_data)

SpecCatalog == Init /\ [][NextCatalog]_vars

\* The text search over a catalogue built by create_new_product.
NextSearch ==
    \/ \E uuid \in UUIDs, t \in Types, b \in Brands, m \in Models :
          \E pr \in Prices, d \in Discounts :
             create_new_product(uuid, t, b, m, pr, d, NoSpecs)
    \/ \E uuid \in UUIDs : delete_product(uuid)
    \/ \E query \in SearchQueries : search_products(query)

SpecSearch == Init /\ [][NextSearch]_vars

\* The latest-discounted listing over products created at different times.
NextLatest ==
    \/ \E uuid \in LatestUUIDs, tb \in ValidProductDetails, pr \in Prices,
          d \in LatestDiscounts :
          create_new_product(uuid, tb[1], tb[2], AnyModel, pr, d, NoSpecs)
    \/ \E uuid \in LatestUUIDs : delete_product(uuid)
    \/ tick
    \/ get_latest_discounted_products

SpecLatest == Init /\ [][NextLatest]_vars

\* The batch price changes over products created at different times.
NextSale ==
    \/ \E uuid \in UUIDs, tb \in ValidProductDetails, pr \in Prices, d \in Discounts :
          create_new_product(uuid, tb[1], tb[2], AnyModel, pr, d, NoSpecs)
    \/ tick
    \/ \E start \in StartDateParams, cutoff \in CutoffDateParams,
          percentage \in DiscountParams :
          clearance_sale(start, cutoff, percentage)
    \/ \E start \in BulkStartDateParams, end \in BulkEndDateParams,
          percentage \in IncreaseParams :
          increase_bulk_product_price_by_date_range(start, end, percentage)

SpecSale == Init /\ [][NextSale]_vars

\* Old stock cleared from a catalogue whose products are in carts.
StockUsers == {"alice", "carol"}
StockQuantities == {"1", "0"}
StockProductParams == UUIDs \cup {NULL}

NextStock ==
    \/ \E uuid \in UUIDs, tb \in ValidProductDetails, pr \in Prices, d \in Discounts :
          create_new_product(uuid, tb[1], tb[2], AnyModel, pr, d, NoSpecs)
    \/ tick
    \/ \E u \in StockUsers, p \in UUIDs, q \in StockQuantities : add_to_cart(u, p, q)
    \/ \E cutoff \in StockCutoffParams : clear_old_stock(cutoff)

SpecStock == Init /\ [][NextStock]_vars

\* The cart workflow over a catalogue that loses products, at one time.
NextOrphan ==
    \/ \E uuid \in UUIDs, tb \in ValidProductDetails, pr \in Prices, d \in Discounts :
          create_new_product(uuid, tb[1], tb[2], AnyModel, pr, d, NoSpecs)
    \/ \E u \in StockUsers, p \in UUIDs, q \in StockQuantities : add_to_cart(u, p, q)
    \/ \E cutoff \in StockCutoffParams : clear_old_stock(cutoff)
    \/ \E uuid \in UUIDs : delete_product(uuid)
    \/ \E u \in StockUsers, p \in StockProductParams, q \in StockQuantities :
          remove_quantity_from_cart(u, p, q)
    \/ \E u \in StockUsers, p \in StockProductParams : purchase_single_cart_product(u, p)
    \/ \E u \in StockUsers : purchase_all_cart_products(u)
    \/ \E u \in StockUsers, p \in StockProductParams :
          delete_single_product_from_cart(u, p)

SpecOrphan == Init /\ [][NextOrphan]_vars


\* Every request that writes a price, over bodies whose price is any number.
RequestPrices == {10, -10}
PricePayloads ==
    [type : {{"phone"}}, brand : {{"acme"}}, model : {{}},
     price : Optional(RequestPrices), discounts : {{}}, specs : {{}}]

NextPrice ==
    \/ \E uuid \in UUIDs, tb \in ValidProductDetails, pr \in RequestPrices, d \in Discounts :
          create_new_product(uuid, tb[1], tb[2], AnyModel, pr, d, NoSpecs)
    \/ \E uuid \in UUIDs, data \in PricePayloads : update_product(uuid, data)
    \/ tick
    \/ \E cutoff \in CutoffDateParams, percentage \in DiscountParams :
          clearance_sale("2024-01-13", cutoff, percentage)
    \/ \E end \in BulkEndDateParams, percentage \in IncreaseParams :
          increase_bulk_product_price_by_date_range("2024-01-13", end, percentage)

SpecPrice == Init /\ [][NextPrice]_vars


\* Concurrent add_to_cart requests of one user for one product.
RaceQuantities == {"1", "2"}

NextLostUpdate ==
    \/ \E w \in Workers, u \in StockUsers, q \in RaceQuantities :
          add_to_cart_lookup(w, u, "p1", q)
    \/ \E w \in Workers : add_to_cart_commit(w)
    \/ \E tb \in ValidProductDetails, pr \in Prices, d \in Discounts :
          create_new_product("p1", tb[1], tb[2], AnyModel, pr, d, NoSpecs)

SpecLostUpdate == Init /\ [][NextLostUpdate]_vars


\* Concurrent searches over a catalogue built by create_new_product.
NextSearchRace ==
    \/ \E uuid \in UUIDs, t \in Types, b \in Brands, m \in Models :
          \E pr \in Prices, d \in Discounts :
             create_new_product(uuid, t, b, m, pr, d, NoSpecs)
    \/ \E w \in Workers, query \in SearchQueries : search_products_read(w, query)
    \/ \E w \in Workers : search_products_commit(w)

SpecSearchRace == Init /\ [][NextSearchRace]_vars


\* The cart workflow with requests during which the database fails.
NextFault ==
    \/ \E uuid \in UUIDs, tb \in ValidProductDetails, pr \in Prices, d \in Discounts :
          create_new_product(uuid, tb[1], tb[2], AnyModel, pr, d, NoSpecs)
    \/ \E u \in StockUsers, p \in StockProductParams, q \in StockQuantities :
          add_to_cart(u, p, q)
    \/ \E u \in StockUsers, p \in StockProductParams, q \in StockQuantities :
          remove_quantity_from_cart(u, p, q)
    \/ \E u \in StockUsers, p \in StockProductParams : purchase_single_cart_product(u, p)
    \/ \E u \in StockUsers : purchase_all_cart_products(u)
    \/ \E u \in StockUsers, p \in StockProductParams :
          delete_single_product_from_cart(u, p)
    \/ \E u \in StockUsers \cup UUIDs \cup {NULL} : clear_user_cart(u)
    \/ \E u \in StockUsers, p \in StockProductParams, q \in StockQuantities,
          at \in FaultPoints : add_to_cart_database_error(u, p, q, at)
    \/ \E u \in StockUsers, p \in StockProductParams, q \in StockQuantities,
          at \in FaultPoints : remove_quantity_from_cart_database_error(u, p, q, at)
    \/ \E u \in StockUsers, p \in StockProductParams, at \in FaultPoints :
          purchase_single_cart_product_database_error(u, p, at)
    \/ \E u \in StockUsers, at \in FaultPoints :
          purchase_all_cart_products_database_error(u, at)
    \/ \E u \in StockUsers, p \in StockProductParams, at \in FaultPoints :
          delete_single_product_from_cart_database_error(u, p, at)
    \/ \E u \in StockUsers \cup UUIDs, at \in FaultPoints :
          clear_user_cart_database_error(u, at)

SpecFault == Init /\ [][NextFault]_vars


\* Carts filled and emptied over a catalogue that gains and loses products,
\* with database failures and a gateway that loses notifications.
NextNotify ==
    \/ \E uuid \in UUIDs, tb \in ValidProductDetails, pr \in Prices, d \in Discounts :
          create_new_product(uuid, tb[1], tb[2], AnyModel, pr, d, NoSpecs)
    \/ \E uuid \in UUIDs : delete_product(uuid)
    \/ \E u \in StockUsers, p \in StockProductParams, q \in StockQuantities :
          add_to_cart(u, p, q)
    \/ \E u \in StockUsers, p \in StockProductParams, q \in StockQuantities :
          remove_quantity_from_cart(u, p, q)
    \/ \E u \in StockUsers, p \in StockProductParams, q \in StockQuantities,
          at \in FaultPoints : add_to_cart_database_error(u, p, q, at)
    \/ gateway_fails

SpecNotify == Init /\ [][NextNotify]_vars


\* ================================================================== claims
\* A property "request A, made in a state where P holds, has outcome Q" reads
\* P => ~ENABLED (A /\ ~Q): no state where P holds allows an A step whose
\* outcome is not Q.

\* The texts that pass the quantity check of add_to_cart and
\* remove_quantity_from_cart: positive integers.
PositiveQuantities == {q \in QuantityParams : q \in {"1", "2"}}

\* The one row of (u, p) in cart c, when there is exactly one.
SingleRow(c, u, p) ==
    /\ Cardinality(RowsOf(c, u, p)) = 1
    /\ \A r \in RowsOf(c, u, p) : c[r] = 1

\* ---- C1
\* C1: cart add is additive.  For a registered user u, an existing product p
\* and positive a, b: when add_to_cart(u, p, a) has just created the Cart row
\* of (u, p) (it answered 200 and the pair's only row holds a, so there was no
\* row before it) and add_to_cart(u, p, b) is the next request, the cart holds
\* exactly one row for (u, p) afterwards, with quantity a + b.
C1_AddIsAdditive ==
    \A u \in User_Registration_Form, p \in UUIDs, a, b \in PositiveQuantities :
        ( /\ last.op = "add_to_cart" /\ last.status = 200
          /\ last.data.username = u /\ last.data.product_uuid = p
          /\ last.data.quantity = int(a)
          /\ RowsOf(cart, u, p) = {CartRow(u, p, int(a))}
          /\ cart[CartRow(u, p, int(a))] = 1 )
        => ~ENABLED ( /\ add_to_cart(u, p, b)
                      /\ ~( /\ last'.status = 200
                            /\ RowsOf(cart', u, p) = {CartRow(u, p, int(a) + int(b))}
                            /\ cart'[CartRow(u, p, int(a) + int(b))] = 1 ) )

\* A second add has just answered: the row holds more than the request added.
C1_Witness ==
    /\ last.op = "add_to_cart" /\ last.status = 200
    /\ SingleRow(cart, last.data.username, last.data.product_uuid)
    /\ \E r \in RowsOf(cart, last.data.username, last.data.product_uuid) :
          r.quantity > last.data.quantity

\* ---- C2
\* C2: in every reachable state, also when add_to_cart requests for the same
\* (username, product_uuid) interleave between the lookup of the Cart row and
\* the commit, the cart table holds at most one row per (username,
\* product_uuid) pair.
C2_AtMostOneRowPerPair ==
    \A u \in User_Registration_Form, p \in UUIDs :
        \A r1, r2 \in RowsOf(cart, u, p) : r1 = r2 /\ cart[r1] = 1

\* ---- C3
\* C3: remove-quantity boundary.  For the Cart row of (u, p) with quantity c,
\* remove_quantity_from_cart(u, p, q) with q = c deletes the row, with
\* 0 < q < c leaves the row with quantity c - q, and with q > c answers 400
\* and leaves the row's quantity at c.
C3_RemoveBoundary ==
    \A u \in User_Registration_Form, p \in UUIDs, q \in PositiveQuantities :
        SingleRow(cart, u, p) =>
          LET c == (CHOOSE r \in RowsOf(cart, u, p) : TRUE).quantity
          IN  ~ENABLED
                ( /\ remove_quantity_from_cart(u, p, q)
                  /\ ~( /\ int(q) = c => last'.status = 200 /\ RowsOf(cart', u, p) = {}
                        /\ int(q) < c => /\ last'.status = 200
                                         /\ SingleRow(cart', u, p)
                                         /\ RowsOf(cart', u, p) = {CartRow(u, p, c - int(q))}
                        /\ int(q) > c => last'.status = 400 /\ cart' = cart ) )

\* A removal of the whole quantity has just deleted the row.
C3_Witness ==
    /\ last.op = "remove_quantity_from_cart" /\ last.status = 200
    /\ last.data.remaining_quantity = 0
    /\ RowsOf(cart, last.data.username, last.data.product_uuid) = {}

\* ---- C4
\* C4: after any sequence of add_to_cart, remove_quantity_from_cart, purchase,
\* delete-single-product and clear-cart requests, each run to completion,
\* every Cart row that exists has quantity >= 1.
C4_QuantityAtLeastOne ==
    \A r \in BagToSet(cart) : r.quantity >= 1

\* A removal that brought a row to zero has just run and rows remain.
C4_Witness ==
    /\ last.op = "remove_quantity_from_cart" /\ last.status = 200
    /\ last.data.remaining_quantity = 0
    /\ cart # EmptyBag

\* ---- C5
\* u has a Cart row whose product is not in the productss table.
HasMissingProduct(u) ==
    \E r \in BagToSet(cart) : r.user_name = u /\ r.product_uuid \notin DOMAIN products

\* The request references an unknown username or product UUID.
Unknown(u, p) == u \notin User_Registration_Form \/ p \notin DOMAIN products

\* C5 as claimed: any cart operation that references a username not in
\* UserRegistration or a product UUID not in Product answers 404 and leaves
\* the cart table unchanged.
C5_UnknownIs404 ==
    [][/\ last'.op = "add_to_cart" =>
            \A u \in UserParams, p \in ProductParams, q \in QuantityParams :
               (Unknown(u, p) /\ add_to_cart(u, p, q))
               => last'.status = 404 /\ cart' = cart
       /\ last'.op = "remove_quantity_from_cart" =>
            \A u \in UserParams, p \in ProductParams, q \in QuantityParams :
               (Unknown(u, p) /\ remove_quantity_from_cart(u, p, q))
               => last'.status = 404 /\ cart' = cart
       /\ last'.op = "purchase_single_cart_product" =>
            \A u \in UserParams, p \in ProductParams :
               (Unknown(u, p) /\ purchase_single_cart_product(u, p))
               => last'.status = 404 /\ cart' = cart
       /\ last'.op = "delete_single_product_from_cart" =>
            \A u \in UserParams, p \in ProductParams :
               (Unknown(u, p) /\ delete_single_product_from_cart(u, p))
               => last'.status = 404 /\ cart' = cart
       /\ last'.op = "purchase_all_cart_products" =>
            \A u \in UserParams :
               ( /\ u \notin User_Registration_Form \/ HasMissingProduct(u)
                 /\ purchase_all_cart_products(u) )
               => last'.status = 404 /\ cart' = cart]_vars

\* C5 as amended: a cart operation whose parameters pass the handler's input
\* validation (username and product UUID not all digits and, for add and
\* remove, a positive integer quantity) and that references a username not in
\* UserRegistration or a product UUID not in Product answers 404; whether or
\* not the parameters pass the validation, the cart table is left unchanged.
C5_ValidatedUnknownIs404 ==
    /\ \A u \in UserParams, p \in ProductParams :
          Unknown(u, p) =>
            /\ \A q \in QuantityParams :
                  ~ENABLED ( /\ add_to_cart(u, p, q) \/ remove_quantity_from_cart(u, p, q)
                             /\ ~( /\ cart' = cart
                                   /\ (~isdigit(u) /\ ~isdigit(p) /\ q \in PositiveQuantities)
                                         => last'.status = 404 ) )
            /\ ~ENABLED ( /\ \/ purchase_single_cart_product(u, p)
                             \/ delete_single_product_from_cart(u, p)
                          /\ ~( /\ cart' = cart
                                /\ (~isdigit(u) /\ ~isdigit(p)) => last'.status = 404 ) )
    /\ \A u \in UserParams :
          (u \notin User_Registration_Form \/ HasMissingProduct(u)) =>
            ~ENABLED ( /\ purchase_all_cart_products(u)
                       /\ ~( /\ cart' = cart
                             /\ ~isdigit(u) => last'.status = 404 ) )

\* An add for an unknown user has just been answered 404 with rows in the cart.
C5_Witness ==
    /\ last.op = "add_to_cart" /\ last.status = 404 /\ last.message = "User Not Found"
    /\ cart # EmptyBag

\* ---- C6
\* sum over the lines of a bag of rows of price x quantity.
RECURSIVE C6_SumPriceTimesQuantity(_, _)
C6_SumPriceTimesQuantity(prods, rows) ==
    IF BagToSet(rows) = {} THEN 0
    ELSE LET r == CHOOSE x \in BagToSet(rows) : TRUE
         IN  prods[r.product_uuid].price * r.quantity * rows[r]
             + C6_SumPriceTimesQuantity(prods, [x \in BagToSet(rows) \ {r} |-> rows[x]])

\* C6: purchase-all.  For a user whose cart lines all reference existing
\* products, purchase_all_cart_products reports a total cost equal to the sum
\* over the lines of price x quantity and a total quantity equal to the sum
\* of the line quantities, and afterwards no Cart row of the user remains.
C6_PurchaseAllTotals ==
    [][\A u \in User_Registration_Form :
          ( /\ last'.op = "purchase_all_cart_products"
            /\ UserRows(cart, u) # EmptyBag
            /\ ~HasMissingProduct(u)
            /\ purchase_all_cart_products(u) )
          => /\ last'.status = 200
             /\ last'.data.item_costs = C6_SumPriceTimesQuantity(products, UserRows(cart, u))
             /\ last'.data.total_count = SumQuantity(UserRows(cart, u))
             /\ UserRows(cart', u) = EmptyBag]_vars

\* ---- C7
\* C7: purchase-all is validate-then-commit.  If any Cart row of the user
\* references a product that does not exist, purchase_all_cart_products
\* answers 404 and every Cart row of the user that existed before the request
\* still exists with the same quantity after it, the rows iterated before the
\* missing product included.
C7_PurchaseAllAborts ==
    \A u \in User_Registration_Form :
        HasMissingProduct(u) =>
          ~ENABLED ( /\ purchase_all_cart_products(u)
                     /\ ~( /\ last'.status = 404
                           /\ UserRows(cart', u) = UserRows(cart, u) ) )

\* A purchase-all has just aborted for a user who has a purchasable row next
\* to the row whose product is missing.
C7_Witness ==
    /\ last.op = "purchase_all_cart_products" /\ last.status = 404
    /\ last.message = "Product Not Found"
    /\ \E r1, r2 \in BagToSet(UserRows(cart, last.data.username)) :
          r1.product_uuid \in DOMAIN products /\ r2.product_uuid \notin DOMAIN products

\* ---- C8
\* C8: purchase single item.  For the Cart row of (u, p) with quantity n and
\* product price c, purchase_single_cart_product(u, p) reports a cost equal to
\* c x n, deletes exactly that Cart row and leaves every other row unchanged.
C8_PurchaseSingleCost ==
    [][\A u \in User_Registration_Form, p \in UUIDs :
          ( /\ last'.op = "purchase_single_cart_product"
            /\ SingleRow(cart, u, p)
            /\ purchase_single_cart_product(u, p) )
          => LET row == CHOOSE r \in RowsOf(cart, u, p) : TRUE
             IN  /\ last'.status = 200
                 /\ last'.data.item_cost = products[p].price * row.quantity
                 /\ cart' = cart (-) One(row)]_vars

\* ---- C9
\* C9: clear cart.  For any registered username u, clear_user_cart(u) answers
\* 200 and leaves no Cart row of u, the rows of other users unchanged; it
\* answers 200 as well when the cart of u is already empty.
C9_ClearCart ==
    [][\A u \in User_Registration_Form :
          clear_user_cart(u)
          => /\ last'.status = 200
             /\ UserRows(cart', u) = EmptyBag
             /\ \A v \in User_Registration_Form \ {u} :
                   UserRows(cart', v) = UserRows(cart, v)]_vars

\* ---- C10
\* C10: for every create request whose (type, brand) pair has no row in
\* ValidProductDetails, create_new_product answers 400 and the Product table
\* is unchanged.
C10_CreateRejectsUnlisted ==
    \A uuid \in UUIDs, t \in Types, b \in Brands, pr \in Prices, d \in Discounts :
        <<t, b>> \notin ValidProductDetails =>
          ~ENABLED ( /\ create_new_product(uuid, t, b, AnyModel, pr, d, NoSpecs)
                     /\ ~(last'.status = 400 /\ products' = products) )

\* A create has just been rejected for its type and brand.
C10_Witness ==
    /\ last.op = "create_new_product" /\ last.status = 400

\* ---- C11
\* C11: create/get round trip.  For every product P with an allow-listed
\* (type, brand) and a UUID not in use, create_new_product(P) answers 201 and
\* stores search_count 0; and when a create has just answered 201, the next
\* get_product_by_uuid of its UUID answers 200 with uuid, type, brand, model,
\* price, discounts and specs equal to those of the request.
C11_CreateGetRoundTrip ==
    /\ \A uuid \in UUIDs \ DOMAIN products, m \in Models, pr \in CatalogPrices,
          d \in CatalogDiscounts, s \in ProductSpecs :
          \A tb \in ValidProductDetails :
             ~ENABLED ( /\ create_new_product(uuid, tb[1], tb[2], m, pr, d, s)
                        /\ ~( /\ last'.status = 201
                              /\ uuid \in DOMAIN products'
                              /\ products'[uuid].search_count = 0 ) )
    /\ (last.op = "create_new_product" /\ last.status = 201) =>
          ~ENABLED ( /\ get_product_by_uuid(last.data.request.uuid)
                     /\ ~( /\ last'.status = 200
                           /\ last'.data = last.data.request ) )

\* A product with two specs keys has just been created.
C11_Witness ==
    /\ last.op = "create_new_product" /\ last.status = 201
    /\ last.data.request.specs = ColorRedSizeL

\* ---- C12
\* C12: delete idempotence.  delete_product of a UUID that is not in the
\* Product table answers 404 and changes neither table; of an existing product
\* it answers 200 and removes the row, leaving the other rows alone; and the
\* delete that follows a successful delete of the same UUID answers 404.
C12_DeleteIdempotent ==
    /\ \A uuid \in UUIDs :
          IF uuid \in DOMAIN products
          THEN ~ENABLED ( /\ delete_product(uuid)
                          /\ ~( /\ last'.status = 200
                                /\ DOMAIN products' = DOMAIN products \ {uuid}
                                /\ \A u \in DOMAIN products' : products'[u] = products[u] ) )
          ELSE ~ENABLED ( /\ delete_product(uuid)
                          /\ ~( /\ last'.status = 404
                                /\ products' = products
                                /\ cart' = cart ) )
    /\ (last.op = "delete_product" /\ last.status = 200) =>
          ~ENABLED ( /\ delete_product(last.data.uuid)
                     /\ last'.status # 404 )

\* A delete has just answered 404 while the tables hold rows.
C12_Witness ==
    /\ last.op = "delete_product" /\ last.status = 404
    /\ products # <<>>
    /\ cart # EmptyBag

\* ---- C13
\* The row an update leaves when every omitted field keeps its value and
\* every supplied field takes the supplied one.
C13_Expected(product, data) ==
    [type |-> IF data.type = {} THEN product.type ELSE The(data.type),
     brand |-> IF data.brand = {} THEN product.brand ELSE The(data.brand),
     model |-> IF data.model = {} THEN product.model ELSE The(data.model),
     price |-> IF data.price = {} THEN product.price ELSE The(data.price),
     discounts |-> IF data.discounts = {} THEN product.discounts ELSE The(data.discounts),
     specs |-> IF data.specs = {} THEN product.specs ELSE The(data.specs),
     created_at |-> product.created_at,
     search_count |-> product.search_count]

\* C13: partial update.  For an existing product, update_product with a
\* payload that omits any subset of type, brand, model, price, discounts and
\* specs (and leaves the product with an allow-listed type and brand)
\* answers 200, keeps every omitted field, sets every supplied field, and
\* changes neither created_at nor search_count nor the UUID.
C13_PartialUpdate ==
    [][ last'.op = "update_product" =>
          \A uuid \in DOMAIN products, data \in UpdatePayloads :
             ( /\ valid_product(C13_Expected(products[uuid], data).type,
                                C13_Expected(products[uuid], data).brand)
               /\ update_product(uuid, data) )
             => /\ last'.status = 200
                /\ DOMAIN products' = DOMAIN products
                /\ products'[uuid] = C13_Expected(products[uuid], data) ]_vars

\* ---- C14
\* C14 as claimed: update_product on a UUID that is not in the Product table
\* answers 404 for any payload and leaves the table unchanged.
C14_UnknownIs404 ==
    [][ last'.op = "update_product" =>
          \A uuid \in UUIDs \ DOMAIN products, data \in UpdatePayloads :
             update_product(uuid, data)
             => (last'.status = 404 /\ products' = products) ]_vars

\* C14, amended: update_product answers 400 exactly when the type and brand
\* of the payload (an omitted one counting as null) are not an allow-listed
\* pair, whether or not the UUID exists; on a UUID that is not in the Product
\* table it answers 404 for every other payload; and in both cases the
\* Product table is unchanged.
C14_UnknownUuid ==
    \A uuid \in UUIDs, data \in UpdatePayloads :
        ~ENABLED ( /\ update_product(uuid, data)
                   /\ ~( /\ (last'.status = 400)
                               <=> ~(<<get(data.type), get(data.brand)>> \in ValidProductDetails)
                         /\ last'.status = 400 => products' = products
                         /\ (uuid \notin DOMAIN products)
                               => /\ products' = products
                                  /\ last'.status \in {400, 404} ) )

\* An update of an unknown UUID has just answered 404 while another product
\* exists.
C14_Witness ==
    /\ last.op = "update_product" /\ last.status = 404
    /\ products # <<>>

\* ---- C17
\* C17: the specs filter is a subset match.  filter_products_by_specs returns
\* a product if and only if every supplied <<key, value>> pair is a pair of the
\* product's own specs map: the key is present there with an equal value.
C17_SubsetMatch ==
    (last.op = "filter_products_by_specs" /\ last.status = 200) =>
        last.data.products =
            {u \in DOMAIN products : last.data.specs \subseteq products[u].specs}

\* ---- C15
\* str contains sub, case-insensitively.
C15_Contains(str, sub) ==
    \E i \in 1..(Len(str) + 1) :
        /\ i + Len(sub) - 1 <= Len(str)
        /\ \A j \in 1..Len(sub) : lower(str[i + j - 1]) = lower(sub[j])

\* The type, the brand or the model of a product contains the query.
C15_Matches(product, query) ==
    \/ C15_Contains(Chars(product.type), Chars(query))
    \/ C15_Contains(Chars(product.brand), Chars(query))
    \/ C15_Contains(Chars(product.model), Chars(query))

\* C15: search side effect.  A search_products request increments
\* search_count by exactly 1 for every product whose type, brand or model
\* contains the query case-insensitively, and leaves every other product, and
\* every other field, unchanged.
C15_SearchSideEffect ==
    [][ last'.op = "search_products" =>
          /\ DOMAIN products' = DOMAIN products
          /\ \A u \in DOMAIN products :
                products'[u] =
                    IF C15_Matches(products[u], last'.data.query)
                    THEN [products[u] EXCEPT !.search_count = @ + 1]
                    ELSE products[u] ]_vars

\* ---- C16
\* C16: latest-discounted.  The products get_latest_discounted_products
\* returns are exactly the products whose discounts is strictly greater than
\* the threshold (one whose discounts equals it is left out), each once, in
\* descending order of created_at.
C16_LatestDiscounted ==
    last.op = "get_latest_discounted_products" =>
        LET result == last.data.products
        IN  /\ last.status = 200
            /\ {result[i] : i \in DOMAIN result}
                  = {u \in DOMAIN products : products[u].discounts > DISCOUNT_THRESHOLD}
            /\ \A u \in DOMAIN products :
                  products[u].discounts = DISCOUNT_THRESHOLD
                     => \A i \in DOMAIN result : result[i] # u
            /\ \A i, j \in DOMAIN result : i # j => result[i] # result[j]
            /\ \A i, j \in DOMAIN result :
                  i < j => products[result[i]].created_at >= products[result[j]].created_at

\* The scenario: products with discounts 5 (below), 15 and 20 created at
\* different times, the listing holding the last two.
C16_Witness ==
    /\ last.op = "get_latest_discounted_products"
    /\ Len(last.data.products) = 2
    /\ {products[u].discounts : u \in DOMAIN products} = {5, 15, 20}
    /\ products[last.data.products[1]].created_at
          > products[last.data.products[2]].created_at

\* ---- C18
\* The dates a request may name, and the current time being within
\* [start_date, start_date + 12 days].
C18_Dates(params) == {d \in params : d # NULL /\ ~strptime_raises(d)}

C18_WithinWindow(start) ==
    /\ strptime(start) * TicksPerDay <= now
    /\ now <= (strptime(start) + SALE_DAYS) * TicksPerDay

\* C18: clearance sale outside its window.  When the current time is not
\* within [start_date, start_date + 12 days], clearance_sale answers 400 with
\* the 'not active' message and changes no product, whatever the cutoff date
\* and the percentage.
C18_OutsideWindow ==
    \A start \in C18_Dates(StartDateParams), cutoff \in C18_Dates(CutoffDateParams),
       percentage \in DiscountParams :
        ~C18_WithinWindow(start) =>
          ~ENABLED ( /\ clearance_sale(start, cutoff, percentage)
                     /\ ~( /\ last'.status = 400
                           /\ last'.message = "Clearance sale is not active at this time."
                           /\ products' = products ) )

\* A sale that ended (or has not begun) has just been refused, with products
\* in the table and the clock past its start.
C18_Witness ==
    /\ last.op = "clearance_sale"
    /\ last.message = "Clearance sale is not active at this time."
    /\ products # <<>>
    /\ now > 0

\* ---- C19
\* The products created strictly before the cutoff date.
C19_BeforeCutoff(cutoff) ==
    {u \in DOMAIN products : products[u].created_at < strptime(cutoff) * TicksPerDay}

\* Every product before the cutoff has its price multiplied by
\* (1 - pct/100), every other product, and every other field, is unchanged.
C19_PricesCut(cutoff, pct) ==
    /\ DOMAIN products' = DOMAIN products
    /\ \A u \in DOMAIN products :
          /\ [products'[u] EXCEPT !.price = products[u].price] = products[u]
          /\ IF u \in C19_BeforeCutoff(cutoff)
             THEN 100 * products'[u].price = products[u].price * (100 - pct)
             ELSE products'[u].price = products[u].price

\* The percentage texts that are numbers in [0, 100].
C19_InRange(percentage) ==
    ~float_raises(percentage) /\ float(percentage) >= 0 /\ float(percentage) <= 100

C20_InRange(start, end) ==
    {u \in DOMAIN products :
        /\ strptime(start) * TicksPerDay <= products[u].created_at
        /\ products[u].created_at < (strptime(end) + 1) * TicksPerDay}

\* C20: bulk price increase.  For start and end dates and a percentage
\* pct >= 0, every product created in the range has its price multiplied by
\* (1 + pct/100), every other product keeps its price, and updated_count,
\* when products are updated, is the number of products in the range; a
\* negative percentage is answered 400 and changes no price.
C20_BulkIncrease ==
    [][ last'.op = "increase_bulk_product_price_by_date_range" =>
          \A start \in C18_Dates(BulkStartDateParams), end \in C18_Dates(BulkEndDateParams),
             percentage \in {x \in IncreaseParams : ~float_raises(x)} :
             increase_bulk_product_price_by_date_range(start, end, percentage)
             => IF float(percentage) >= 0
                THEN /\ last'.status = 200
                     /\ DOMAIN products' = DOMAIN products
                     /\ \A u \in DOMAIN products :
                           IF u \in C20_InRange(start, end)
                           THEN 100 * products'[u].price
                                   = products[u].price * (100 + float(percentage))
                           ELSE products'[u].price = products[u].price
                     /\ last'.data # NoData
                           => last'.data.updated_count
                                 = Cardinality(C20_InRange(start, end))
                ELSE /\ last'.status = 400
                     /\ products' = products ]_vars


\* ---- C21
\* The cutoff texts that parse, and the products created strictly before the
\* midnight of one.
C21_Cutoffs == {c \in StockCutoffParams : c # NULL /\ ~strptime_raises(c)}

C21_Before(cutoff) ==
    {u \in DOMAIN products : products[u].created_at < strptime(cutoff) * TicksPerDay}

C30_OnlyPriceChanges ==
    \A start \in StartDateParams, cutoff \in CutoffDateParams, percentage \in DiscountParams :
        ~ENABLED ( /\ clearance_sale(start, cutoff, percentage)
                   /\ ~( /\ DOMAIN products' = DOMAIN products
                         /\ cart' = cart
                         /\ \A u \in DOMAIN products :
                               /\ products'[u].discounts = products[u].discounts
                               /\ discounted(products'[u]) = discounted(products[u])
                               /\ [products'[u] EXCEPT !.price = products[u].price]
                                     = products[u] ) )

\* A sale has cut a price to nothing, a 100 percent sale, and the product
\* still has the discounts it was created with.
C30_Witness ==
    /\ last.op = "clearance_sale"
    /\ last.status = 200
    /\ "updated_count" \in DOMAIN last.data
    /\ \E u \in DOMAIN products :
          /\ products[u].price = 0
          /\ products[u].discounts \in Discounts

\* ---- C26
\* C26: in every reachable state the price of every stored product is
\* non-negative.
C26_PriceNonNegative == \A u \in DOMAIN products : products[u].price >= 0

\* ---- C27
\* C27: a request that read the one row of its (user, product) at quantity c
\* and commits stores c plus its own quantity, whatever was committed to the
\* row since it read: of two requests that both read c, the one committing
\* last leaves c plus its quantity, never c plus both quantities.
C27_LastCommitWins ==
    \A w \in Workers :
        ( /\ workers[w].pc = "commit"
          /\ workers[w].found # {}
          /\ SingleRow(cart, workers[w].username, workers[w].product_uuid) ) =>
          ~ENABLED ( /\ add_to_cart_commit(w)
                     /\ ~( /\ SingleRow(cart', workers[w].username, workers[w].product_uuid)
                           /\ \A r \in RowsOf(cart', workers[w].username,
                                              workers[w].product_uuid) :
                                 /\ r.quantity = The(workers[w].found).quantity
                                                   + workers[w].quantity
                                 /\ \A current \in RowsOf(cart, workers[w].username,
                                                          workers[w].product_uuid) :
                                       current.quantity # The(workers[w].found).quantity
                                          => r.quantity # current.quantity
                                                            + workers[w].quantity ) )

\* Both requests read the row at the same quantity, one has committed its
\* increment and the other is about to commit.
C27_Witness ==
    \E w \in Workers :
        /\ workers[w].pc = "commit"
        /\ workers[w].found # {}
        /\ SingleRow(cart, workers[w].username, workers[w].product_uuid)
        /\ \E current \in RowsOf(cart, workers[w].username, workers[w].product_uuid) :
              current.quantity > The(workers[w].found).quantity
        /\ last.op = "add_to_cart"
        /\ last.status = 200
        /\ last.data.username = workers[w].username
        /\ last.data.product_uuid = workers[w].product_uuid

\* ---- C28
\* C28: every search request that commits has raised the stored search_count
\* of each product it matched by exactly one, whatever other searches ran
\* between its read and its commit, so that N requests matching a product
\* raise its search_count by N.
C28_IncrementIsAtomic ==
    [][ \A w \in Workers :
          (workers[w].pc = "search" /\ workers'[w].pc = "idle") =>
             \A u \in DOMAIN workers[w].search_results :
                products'[u].search_count = products[u].search_count + 1 ]_vars

\* ---- C29
\* The Cart rows whose product is not in the catalogue, and the product
\* parameters that name no product of the catalogue.
C29_Orphans == {r \in BagToSet(cart) : ~fetch_product_by_uuid(products, r.product_uuid)}

C29_Absent == {p \in StockProductParams : ~fetch_product_by_uuid(products, p)}

\* The number of Cart rows of each user.
C29_RowCount(c) == [u \in User_Registration_Form |-> BagCardinality(UserRows(c, u))]

\* C29: delete_product and clear_old_stock delete no Cart row (every user has
\* as many rows after as before), and while a row's product is absent the
\* four cart operations answer 404 for its user and an absent product and
\* leave the cart table as it is, and no request of the four removes the row.
C29_OrphanRowsStay ==
    /\ \A uuid \in UUIDs :
          ~ENABLED ( /\ delete_product(uuid)
                     /\ C29_RowCount(cart') # C29_RowCount(cart) )
    /\ \A cutoff \in StockCutoffParams :
          ~ENABLED ( /\ clear_old_stock(cutoff)
                     /\ C29_RowCount(cart') # C29_RowCount(cart) )
    /\ \A r \in C29_Orphans :
          /\ \A p \in C29_Absent :
                /\ \A q \in StockQuantities :
                      ~ENABLED ( /\ remove_quantity_from_cart(r.user_name, p, q)
                                 /\ q # "0"
                                 /\ ~(last'.status = 404 /\ cart' = cart) )
                /\ ~ENABLED ( /\ purchase_single_cart_product(r.user_name, p)
                              /\ ~(last'.status = 404 /\ cart' = cart) )
                /\ ~ENABLED ( /\ delete_single_product_from_cart(r.user_name, p)
                              /\ ~(last'.status = 404 /\ cart' = cart) )
          /\ ~ENABLED ( /\ purchase_all_cart_products(r.user_name)
                        /\ ~(last'.status = 404 /\ cart' = cart) )
          /\ \A u \in StockUsers, p \in StockProductParams, q \in StockQuantities :
                ~ENABLED ( /\ \/ remove_quantity_from_cart(u, p, q)
                              \/ purchase_single_cart_product(u, p)
                              \/ purchase_all_cart_products(u)
                              \/ delete_single_product_from_cart(u, p)
                           /\ CopiesIn(r, cart') # CopiesIn(r, cart) )

\* A purchase of the whole cart was refused for a user one of whose rows has
\* lost its product.
C29_Witness ==
    /\ last.op = "purchase_all_cart_products"
    /\ last.status = 404
    /\ last.message = "Product Not Found"
    /\ \E r \in C29_Orphans : r.user_name = last.data.username

\* ---- C22
\* The steps that are a cart request during which the database fails.
C22_DatabaseFailure ==
    \E u \in StockUsers \cup UUIDs, p \in StockProductParams, q \in StockQuantities,
       at \in FaultPoints :
        \/ add_to_cart_database_error(u, p, q, at)
        \/ remove_quantity_from_cart_database_error(u, p, q, at)
        \/ purchase_single_cart_product_database_error(u, p, at)
        \/ purchase_all_cart_products_database_error(u, at)
        \/ delete_single_product_from_cart_database_error(u, p, at)
        \/ clear_user_cart_database_error(u, at)

\* C22: a cart request during which the database fails leaves the tables as
\* they were before it and is answered with status 500.
C22_FailureRollsBackAnd500 ==
    [][ C22_DatabaseFailure =>
          /\ cart' = cart
          /\ products' = products
          /\ last'.status = 500 ]_vars

\* ---- C25
\* C25: a request answered with status 400 leaves the tables as they were
\* before it (the user and allow-list tables are written by no handler).
C25_BadRequestChangesNothing ==
    [][ last'.status = 400 => (products' = products /\ cart' = cart) ]_vars

\* ---- C24
\* C24: a request answered with status 400, 404 or 500 has called
\* notify_failure.
C24_ErrorsNotifyFailure ==
    last.status \in {400, 404, 500} =>
       \E i \in DOMAIN outbox : outbox[i] = notify_failure

\* ---- C23
\* In the outbox of a request every success notification comes after a commit.
C23_CommitFirst(o) ==
    \A i \in DOMAIN o : o[i] = notify_success => \E j \in 1..(i - 1) : o[j] = commit

\* The outcome of a request: no change of a table without a commit before the
\* success notification.
C23_Outcome ==
    (products' # products \/ cart' # cart) => C23_CommitFirst(outbox')

\* C23: every request that changes a table has committed before it sends its
\* success notification; a request whose commit or later read fails sends no
\* success notification without a commit; and the loss of a notification
\* changes no table.
C23_CommitBeforeSuccess ==
    /\ \A u \in StockUsers \cup UUIDs \cup {NULL}, p \in StockProductParams,
          q \in StockQuantities :
          ~ENABLED ( /\ \/ add_to_cart(u, p, q)
                        \/ remove_quantity_from_cart(u, p, q)
                        \/ purchase_single_cart_product(u, p)
                        \/ purchase_all_cart_products(u)
                        \/ delete_single_product_from_cart(u, p)
                        \/ clear_user_cart(u)
                     /\ ~C23_Outcome )
    /\ \A u \in StockUsers \cup UUIDs, p \in StockProductParams, q \in StockQuantities,
          at \in FaultPoints :
          ~ENABLED ( /\ \/ add_to_cart_database_error(u, p, q, at)
                        \/ remove_quantity_from_cart_database_error(u, p, q, at)
                        \/ purchase_single_cart_product_database_error(u, p, at)
                        \/ purchase_all_cart_products_database_error(u, at)
                        \/ delete_single_product_from_cart_database_error(u, p, at)
                        \/ clear_user_cart_database_error(u, at)
                     /\ ~C23_CommitFirst(outbox') )
    /\ \A uuid \in UUIDs :
          /\ ~ENABLED (delete_product(uuid) /\ ~C23_Outcome)
          /\ \A tb \in ValidProductDetails, pr \in Prices, d \in Discounts :
                ~ENABLED ( /\ create_new_product(uuid, tb[1], tb[2], AnyModel, pr, d, NoSpecs)
                           /\ ~C23_Outcome )
          /\ \A data \in PricePayloads :
                ~ENABLED (update_product(uuid, data) /\ ~C23_Outcome)
    /\ \A cutoff \in StockCutoffParams :
          /\ ~ENABLED (clear_old_stock(cutoff) /\ ~C23_Outcome)
          /\ \A percentage \in DiscountParams :
                ~ENABLED (clearance_sale("2024-01-13", cutoff, percentage) /\ ~C23_Outcome)
    /\ \A end \in BulkEndDateParams, percentage \in IncreaseParams :
          ~ENABLED ( /\ increase_bulk_product_price_by_date_range("2024-01-13", end,
                                                                  percentage)
                     /\ ~C23_Outcome )
    /\ \A query \in SearchQueries : ~ENABLED (search_products(query) /\ ~C23_Outcome)
    /\ ~ENABLED (gateway_fails /\ (products' # products \/ cart' # cart))

\* The success notification of an add_to_cart request was lost and the row
\* the request committed is in the cart.
C23_Witness ==
    /\ last.op = "add_to_cart"
    /\ last.status = 200
    /\ outbox = <<commit, undelivered(notify_success)>>
    /\ RowsOf(cart, last.data.username, last.data.product_uuid) # {}
=============================================================================
